---- MODULE Spec2Model ----
(***************************************************************************)
(* busoc/erdle: CADU (VCDU) frames to HRDL packets.                        *)
(*                                                                         *)
(* Bytes are the naturals 0..255, byte slices are sequences.  Offsets are  *)
(* 0-based as in the Go source: Slice(s, lo, hi) is s[lo:hi].              *)
(* The 1008-byte CADU body is scaled to BodyLen bytes; every other length  *)
(* (sync word, HRDL header and trailer) keeps its value.                   *)
(***************************************************************************)
EXTENDS Integers, Sequences, FiniteSets, TLC

VARIABLES
    files,      \* multiReader: the unread bytes of the open file, then the files to open
    packets,    \* ghost: the HRDL packets H1..Hn the producer encoded
    frames,     \* the upstream CADU stream, in arrival order
    lost,       \* ghost: [at, k] the run of frames removed from the stream
    pos,        \* number of frames consumed from the upstream reader
    counter,    \* vcduReader.counter
    reads,      \* history of the results of vcduReader.Read
    rest,       \* hrdlReader.rest / reassemble's rest / Builder.buffer / assembler.rest
    size,       \* Builder.size
    written,    \* Builder.written
    out,        \* results of the HRDL reader's Read calls, oldest first
    stage,      \* position of the driver
    src,        \* stuffing: the packet b
    stuffed,    \* stuffing: StuffBytes(b)
    unstuffed,  \* stuffing: UnstuffBytes(StuffBytes(b))
    queue,      \* reassemble's output channel, validate's input
    keep,       \* validate: the keep flag
    q,          \* validate: output channel content
    stats,      \* validate: [count, size, dropped, errLength, errSum]
    relay,      \* reassemble: [count, skipped, dropped, size, errMissing, errCRC]
    tasks,      \* the goroutines of the relay besides reassemble's loop: running or done
    pool,       \* the pool of NewPool: [n, instance, queue, conns]
    writers,    \* the goroutines runRelay starts, one per packet: [pc, c]
    wire,       \* what has been written on the outbound connections: [c, pkt, bytes]
    ring,       \* the ring of part_000 with its writer, its reader and syncboth
    cacat,      \* cacat: [next, file] the writer's counter and the frames written
    mem,        \* slices: [arrays, wrote, by, sent] the backing arrays and the last writes
    snap        \* statistics: the ticker of validate, what it loaded and printed

vars == <<files, packets, frames, lost, pos, counter, reads, rest, size, written,
          out, stage, src, stuffed, unstuffed, queue, keep, q, stats, relay,
          tasks, pool, writers, wire, ring, cacat, mem, snap>>

streamVars == <<files, packets, frames, lost, pos, counter, reads, rest, size, written, out>>
stuffVars == <<src, stuffed, unstuffed>>
validVars == <<queue, keep, q, stats, relay>>
taskVars == <<tasks, pool, writers, wire, ring, cacat, mem, snap>>

-----------------------------------------------------------------------------
(* Bounds of the model *)

\* the CADU body length (1008 in the source), scaled
BodyLen == 16
\* at most this many HRDL packets in one stream
MaxPackets == 3
\* at most this many chunks in a generated packet body
MaxChunks == 3
\* at most this many CADUs in a stream generated for the CADU reader alone
MaxFrames == 5
\* the length of a CADU in the byte stream read from files (1024 in the
\* source), scaled: the magic, one byte of sequence number, the body, one byte
\* of CRC
FrameLen == 8
\* at most this many CADUs written to the files
MaxFileFrames == 3
\* at most this many filler CADUs after a packet
MaxFill == 2
\* at most this many buffers handed to validate
MaxQueue == 3
\* the capacity n of the channels of reassemble and validate
QueueCap == 1
\* the pool is asked for 0..MaxConns connections
MaxConns == 2
\* at most this many packets handed to the pool, one goroutine each
MaxWrites == 3
\* the size s of the ring's buffer
RingCap == 3
\* at most this many calls of ring.Write, of 1..MaxChunk bytes each
MaxRingWrites == 3
MaxChunk == 2
\* the length of a CADU as cacat and the CADU reader lay it out (1024 in the
\* source), scaled: 14 bytes of headers, the body, 2 bytes of CRC
CaduLen == 18
\* at most this many frames written by cacat
MaxCat == 3

-----------------------------------------------------------------------------
(* Constants of the program *)

Word == <<248, 46, 53, 83>>
Stuff == <<248, 46, 53, 170>>
WordLen == 4
Magic == <<26, 207, 252, 29>>
MagicLen == 4
hrdlHeaderLen == 8
hrdlTrailerLen == 4
hrdlMetaLen == hrdlHeaderLen + hrdlTrailerLen
CaduCounterMask == 16777215
caduBodyLen == BodyLen

-----------------------------------------------------------------------------
(* Byte slices *)

Min(a, b) == IF a < b THEN a ELSE b

\* s[lo:hi]
Slice(s, lo, hi) == SubSeq(s, lo + 1, hi)

\* s[lo:]
From(s, lo) == SubSeq(s, lo + 1, Len(s))

\* bytes.Index(s, sep): first 0-based index of sep in s, -1 if absent
Index(s, sep) ==
    LET hits == {i \in 0..(Len(s) - Len(sep)) : SubSeq(s, i + 1, i + Len(sep)) = sep}
    IN  IF hits = {} THEN -1 ELSE CHOOSE i \in hits : \A j \in hits : i <= j

\* binary.BigEndian.PutUint16 and PutUint32
BE16(v) == <<(v \div 256) % 256, v % 256>>
BE32(v) == BE16(v \div 65536) \o BE16(v % 65536)

\* binary.LittleEndian.PutUint32
PutUint32LE(n) ==
    <<n % 256, (n \div 256) % 256, (n \div 65536) % 256, (n \div 16777216) % 256>>

\* binary.LittleEndian.Uint32(s): the first four bytes of s.  Values of 2^31 and
\* above are beyond the integers of TLC and are all read as 2^31 - 648:
\* the model only compares them with lengths and byte sums far below
Uint32LE(s) ==
    IF s[4] >= 128 THEN 2147483000
    ELSE s[1] + 256 * s[2] + 65536 * s[3] + 16777216 * s[4]

\* hrdlSum.Write: the uint32 sum of the bytes (no slice of the model is long
\* enough for the sum to wrap)
RECURSIVE SumBytes(_)
SumBytes(s) == IF s = <<>> THEN 0 ELSE s[1] + SumBytes(Tail(s))

RECURSIVE Zeros(_)
Zeros(n) == IF n <= 0 THEN <<>> ELSE <<0>> \o Zeros(n - 1)

RECURSIVE Flatten(_)
Flatten(ss) == IF ss = <<>> THEN <<>> ELSE Head(ss) \o Flatten(Tail(ss))

\* the producer's encoding of one HRDL packet: SYNC | LENGTH | BODY | CKSUM
Encode(body) == Word \o PutUint32LE(Len(body)) \o body \o PutUint32LE(SumBytes(body))

\* hrdlSum over BODY against the trailer (verifyHRDL's comparison)
SumOK(bs) == SumBytes(Slice(bs, 8, Len(bs) - 4)) = Uint32LE(From(bs, Len(bs) - 4))

-----------------------------------------------------------------------------
(* Byte stuffing: StuffBytes, UnstuffBytes *)

RECURSIVE StuffLoop(_, _, _)
StuffLoop(bs, offset, xs) ==
    LET ix == Index(From(bs, offset), Word)
    IN  IF ix < 0
        THEN xs \o From(bs, offset)
        ELSE StuffLoop(bs, offset + ix + WordLen - 1,
                       xs \o Slice(bs, offset, offset + ix) \o Stuff)

StuffBytes(bs) == StuffLoop(bs, WordLen * 2, Slice(bs, 0, WordLen * 2))

RECURSIVE UnstuffLoop(_, _, _)
UnstuffLoop(s, offset, dst) ==
    LET ix == Index(From(s, offset), Stuff)
    IN  IF ix < 0
        THEN dst \o From(s, offset)
        ELSE UnstuffLoop(s, offset + ix + Len(Stuff),
                         dst \o Slice(s, offset, offset + ix + 3))

\* mutant: the markers are removed whatever the declared length
UnstuffAlways(s) == UnstuffLoop(s, 0, <<>>)

\* the part of every revision of UnstuffBytes after the length guard
UnstuffBody(s) ==
    LET z == Uint32LE(From(s, 4)) + 12
        d == Len(s) - z
        t == IF d > 0 /\ d % caduBodyLen = 0 THEN Slice(s, 0, Len(s) - d) ELSE s
    IN  IF Len(t) > z THEN UnstuffLoop(t, 0, <<>>) ELSE t

\* erdle.UnstuffBytes(src, dst): the bytes written to dst (dst is large enough)
UnstuffBytes(s) == IF Len(s) <= 4 THEN <<>> ELSE UnstuffBody(s)

-----------------------------------------------------------------------------
(* Inputs *)

Chunks == {<<1>>, <<0>>, <<83>>, <<170, 83>>, Word, Stuff}

RECURSIVE Bodies(_)
Bodies(n) ==
    IF n = 0 THEN {<<>>}
    ELSE LET prev == Bodies(n - 1)
         IN  prev \cup {b \o c : b \in prev, c \in Chunks}

StuffInputs == {Encode(b) : b \in Bodies(MaxChunks) \ {<<>>}}

NoStream ==
    /\ packets = <<>> /\ frames = <<>> /\ lost = [at |-> 0, k |-> 0]
    /\ files = <<>> /\ pos = 0 /\ counter = 0 /\ reads = <<>> /\ rest = <<>>
    /\ size = 0 /\ written = 0 /\ out = <<>>

NoStuff == src = <<>> /\ stuffed = <<>> /\ unstuffed = <<>>

\* the goroutines started by reassemble and validate and the loop that ranges
\* over validate's channel
Tasks == {"feed", "atick", "validate", "vtick", "consume"}

\* no cacat writer
NoCacat == [next |-> 0, file |-> <<>>]

\* no slice allocated
NoMem == [arrays |-> <<>>, wrote |-> {}, by |-> "none", sent |-> FALSE]

\* no statistics task running
NoSnap == [rev |-> "none", t |-> "idle", i |-> 0, w |-> "recv", pkt |-> <<>>,
           n |-> 0, load |-> <<>>, shown |-> <<>>, made |-> <<>>]

\* a ring nobody has built
NoRing == [buffer |-> <<>>, rix |-> 0, wix |-> 0, available |-> 0,
           sync |-> [pc |-> "select", n |-> 0],
           w |-> [pc |-> "idle", bs |-> <<>>, done |-> 0],
           r |-> [pc |-> "idle", n |-> 0, got |-> <<>>, done |-> 0]]

NoPool == [n |-> 0, instance |-> -1, queue |-> <<>>, conns |-> <<>>]

NoTasks ==
    /\ tasks = [t \in Tasks |-> "run"]
    /\ pool = NoPool /\ writers = <<>> /\ wire = <<>>
    /\ ring = NoRing /\ snap = NoSnap /\ cacat = NoCacat /\ mem = NoMem

NoRelay == [count |-> 0, skipped |-> 0, dropped |-> 0, size |-> 0,
            errMissing |-> 0, errCRC |-> 0]

NoValidate ==
    /\ queue = <<>> /\ keep = FALSE /\ q = <<>>
    /\ stats = [count |-> 0, size |-> 0, dropped |-> 0, errLength |-> 0, errSum |-> 0]
    /\ relay = NoRelay

-----------------------------------------------------------------------------
(* CADU reader: vcduReader.Read *)

NoErr == [kind |-> "nil", a |-> 0, b |-> 0]
EOF == [kind |-> "EOF", a |-> 0, b |-> 0]
CRCError(want, got) == [kind |-> "crc", a |-> want, b |-> got]
MissingCaduError(from, to) == [kind |-> "missing", a |-> from, b |-> to]

\* IsMissingCadu's second result
IsMissingCadu(err) == err.kind = "missing"

\* IsCRCError
IsCRCError(err) == err.kind = "crc"

\* (curr - prev) & 0xFFFFFF on uint32
SeqDiff(curr, prev) == (curr - prev) % (CaduCounterMask + 1)

\* IsMissingCadu's first result: int((e.To - e.From) & 0xFFFFFF)
MissingCount(err) == SeqDiff(err.b, err.a)

\* mutant: the sequence test without the exemption of diff = curr
GapSeenAnyDiff(curr, prev) == SeqDiff(curr, prev) > 1

\* the sequence test of vcduReader.Read
GapSeen(curr, prev) ==
    LET diff == SeqDiff(curr, prev) IN diff # curr /\ diff > 1

\* mutant: the gap error is returned before the CRC error
VcduReadGapFirst(f, ctr) ==
    [body |-> f.body,
     err |-> IF GapSeen(f.seq, ctr) THEN MissingCaduError(ctr, f.seq)
             ELSE IF f.got # f.want THEN CRCError(f.want, f.got) ELSE NoErr,
     counter |-> f.seq]

\* mutant: a frame with a CRC mismatch is lost, no byte copied and the counter
\* left alone
VcduReadLosesBad(f, ctr) ==
    IF f.got # f.want
    THEN [body |-> <<>>, err |-> CRCError(f.want, f.got), counter |-> ctr]
    ELSE [body |-> f.body,
          err |-> IF GapSeen(f.seq, ctr) THEN MissingCaduError(ctr, f.seq) ELSE NoErr,
          counter |-> f.seq]

\* vcduReader.Read on frame f with r.counter = ctr, body-only mode:
\* the bytes copied to bs, the error returned and the new r.counter
VcduRead(f, ctr) ==
    LET crc  == IF f.got # f.want THEN CRCError(f.want, f.got) ELSE NoErr
        curr == f.seq
        err  == IF GapSeen(curr, ctr) /\ crc = NoErr
                THEN MissingCaduError(ctr, curr)
                ELSE crc
    IN  [body |-> f.body, err |-> err, counter |-> curr]

-----------------------------------------------------------------------------
(* Specification of the CADU reader over a numbered stream *)

MkFrame(seq, body, bad) ==
    [seq |-> seq % (CaduCounterMask + 1), body |-> body,
     want |-> 7, got |-> IF bad THEN 9 ELSE 7]

\* drop the k elements of s that start at 0-based index at
Remove(s, at, k) == Slice(s, 0, at) \o From(s, at + k)

Starts == {0, 1, 2, CaduCounterMask - 1, CaduCounterMask}

\* frames start .. start+n-1 (mod 2^24), the one at index bad (if any) with a
\* wrong CRC trailer
Numbered(start, n, bad) ==
    [i \in 1..n |-> MkFrame(start + i - 1, [j \in 1..BodyLen |-> i], i - 1 = bad)]

InitVcdu ==
    /\ NoStuff /\ NoValidate /\ NoTasks
    /\ packets = <<>> /\ rest = <<>> /\ size = 0 /\ written = 0 /\ out = <<>>
    /\ \E start \in Starts, n \in 3..MaxFrames, bad \in -1..(MaxFrames - 1) :
       \E at \in 1..(n - 2) : \E k \in 0..(n - 1 - at) :
          /\ frames = Remove(Numbered(start, n, bad), at, k)
          /\ lost = [at |-> at, k |-> k]
    /\ files = <<>> /\ pos = 0 /\ counter = 0 /\ reads = <<>>
    /\ stage = "read"

\* one call of vcduReader.Read that gets a frame from upstream
ReadFrame ==
    /\ stage = "read"
    /\ pos < Len(frames)
    /\ LET f == frames[pos + 1]
           r == VcduRead(f, counter)
       IN  /\ counter' = r.counter
           /\ reads' = Append(reads, [prev |-> counter, curr |-> f.seq,
                                     crcok |-> f.got = f.want,
                                     want |-> f.want, got |-> f.got,
                                     n |-> Len(r.body), body |-> r.body,
                                     err |-> r.err])
    /\ pos' = pos + 1
    /\ UNCHANGED <<files, packets, frames, lost, rest, size, written, out, stage>>
    /\ UNCHANGED stuffVars /\ UNCHANGED taskVars /\ UNCHANGED validVars

\* the call of vcduReader.Read that finds upstream exhausted
ReadEOF ==
    /\ stage = "read"
    /\ pos = Len(frames)
    /\ stage' = "eof"
    /\ UNCHANGED streamVars /\ UNCHANGED stuffVars /\ UNCHANGED taskVars /\ UNCHANGED validVars

NextVcdu == ReadFrame \/ ReadEOF

SpecVcdu == InitVcdu /\ [][NextVcdu]_vars

AllCrcOK == \A i \in 1..Len(frames) : frames[i].got = frames[i].want

Missing(rs) == {i \in 1..Len(rs) : rs[i].err.kind = "missing"}

\* C4: one removed run of k >= 1 frames yields exactly one MissingCaduError, with
\* ((To - From) mod 2^24) - 1 = k, and no other error; after every read the
\* counter is the sequence number of the frame just read
C4_OneGapError ==
    /\ (pos > 0 => counter = frames[pos].seq)
    /\ (stage = "eof" /\ lost.k >= 1 /\ AllCrcOK) =>
          /\ Cardinality(Missing(reads)) = 1
          /\ \A i \in Missing(reads) :
                SeqDiff(reads[i].err.b, reads[i].err.a) - 1 = lost.k
          /\ \A i \in 1..Len(reads) : reads[i].err.kind \in {"nil", "missing"}

\* C5 as stated: for every frame after the first (here: with a valid CRC) a
\* missing-frames error {from: prev, to: curr} is reported exactly when
\* curr < prev, or when (curr - prev) mod 2^24 is greater than 1 and not equal
\* to curr
C5_GapRuleAsStated ==
    \A i \in 2..Len(reads) :
        LET r == reads[i] IN
        r.crcok =>
        ((r.err = MissingCaduError(r.prev, r.curr))
            <=> (r.curr < r.prev
                 \/ (SeqDiff(r.curr, r.prev) > 1 /\ SeqDiff(r.curr, r.prev) # r.curr)))

\* C5 amended: a missing-frames error {from: prev, to: curr} is reported exactly
\* when (curr - prev) mod 2^24 is greater than 1 and not equal to curr and the
\* frame raised no CRC error; the read always delivers the frame body and sets
\* prev to curr
C5_GapRule ==
    /\ \A i \in 1..Len(reads) :
          LET r == reads[i] IN
          /\ (r.err.kind = "missing")
                <=> (SeqDiff(r.curr, r.prev) > 1 /\ SeqDiff(r.curr, r.prev) # r.curr
                     /\ r.crcok)
          /\ (r.err.kind = "missing" => r.err = MissingCaduError(r.prev, r.curr))
          /\ r.n = BodyLen
          /\ (i < Len(reads) => reads[i + 1].prev = r.curr)
    /\ (reads # <<>> => counter = reads[Len(reads)].curr)

\* C12: a frame whose CRC differs from its trailer is returned with a CRCError
\* carrying want and got and a positive count; its body is copied to the
\* caller, the frame is consumed and the sequence counter is that frame's
C12_CrcSurfaced ==
    /\ Len(reads) = pos
    /\ \A i \in 1..Len(reads) :
          LET r == reads[i] IN
          ~r.crcok =>
             /\ r.err = CRCError(r.want, r.got) /\ r.want # r.got
             /\ r.n > 0 /\ r.n = BodyLen
             /\ r.body = frames[i].body
             /\ (i < Len(reads) => reads[i + 1].prev = r.curr)
             /\ (i = Len(reads) => counter = r.curr)

\* a frame with a CRC mismatch has been read, and another frame after it
C12_Witness ==
    \E i \in 1..Len(reads) : ~reads[i].crcok /\ i < Len(reads)

\* the sequence test of vcduReader.Read finds a gap before the i-th frame read
GapBefore(i) ==
    SeqDiff(reads[i].curr, reads[i].prev) > 1
    /\ SeqDiff(reads[i].curr, reads[i].prev) # reads[i].curr

\* C18: a frame with both a CRC mismatch and a sequence gap is returned with one
\* error, the CRC error (IsCRCError true, IsMissingCadu false), and with its
\* bytes; the counter is still updated to that frame's sequence
C18_CrcBeforeGap ==
    \A i \in 1..Len(reads) :
       (~reads[i].crcok /\ GapBefore(i)) =>
          /\ reads[i].err = CRCError(reads[i].want, reads[i].got)
          /\ IsCRCError(reads[i].err) /\ ~IsMissingCadu(reads[i].err)
          /\ reads[i].n = BodyLen
          /\ (i < Len(reads) => reads[i + 1].prev = reads[i].curr)
          /\ (i = Len(reads) => counter = reads[i].curr)

\* the first frame after a removed run has a CRC mismatch, and a frame follows
C18_Witness ==
    \E i \in 2..Len(reads) : ~reads[i].crcok /\ GapBefore(i) /\ i < Len(reads)

\* C17: the sequence counter wraps modulo 2^24: sequence 0 after 0xFFFFFF is no
\* gap, and a run of k missing frames is reported with
\* ((to - from) mod 2^24) - 1 = k also when it spans the wrap or follows a
\* frame whose sequence is 0
C17_SequenceWrap ==
    \A i \in 2..Len(reads) :
       LET r == reads[i] IN
       r.crcok =>
          /\ (r.prev = CaduCounterMask /\ r.curr = 0) => r.err = NoErr
          /\ ((r.curr < r.prev \/ r.prev = 0) /\ SeqDiff(r.curr, r.prev) > 1) =>
                /\ r.err = MissingCaduError(r.prev, r.curr)
                /\ SeqDiff(r.err.b, r.err.a) - 1 = lost.k

\* a gap was reported, and the counter has wrapped from 0xFFFFFF to 0 unreported
C5_Witness ==
    /\ \E i \in 1..Len(reads) : reads[i].err.kind = "missing"
    /\ \E i \in 1..Len(reads) :
          reads[i].curr < reads[i].prev /\ reads[i].err.kind = "nil"

-----------------------------------------------------------------------------
(* CADU streams that carry HRDL packets *)

\* body of the i-th packet: len bytes of value i, a sync word after the first
\* byte when word is set
Kinds == {[len |-> 2, word |-> FALSE], [len |-> 10, word |-> FALSE],
          [len |-> 48, word |-> FALSE], [len |-> 9, word |-> TRUE]}

Body(kind, i) ==
    IF kind.word
    THEN <<i>> \o Word \o [j \in 1..(kind.len - 5) |-> i]
    ELSE [j \in 1..kind.len |-> i]

KindSeqs == UNION {[1..n -> Kinds] : n \in 1..MaxPackets}

\* the packets of a stream, as the producer hands them to StuffBytes
Packets(ks) == [i \in 1..Len(ks) |-> Encode(Body(ks[i], i))]

\* the on-wire bytes: the stuffed packets back to back, then zeros up to the
\* end of the last CADU
Wire(ps) ==
    LET bytes == Flatten([i \in 1..Len(ps) |-> StuffBytes(ps[i])])
        pad   == (caduBodyLen - (Len(bytes) % caduBodyLen)) % caduBodyLen
    IN  bytes \o Zeros(pad)

\* the CADUs that carry the bytes, numbered from start, all with a valid CRC
Cadus(bytes, start) ==
    [i \in 1..(Len(bytes) \div caduBodyLen) |->
        MkFrame(start + i - 1,
                Slice(bytes, (i - 1) * caduBodyLen, i * caduBodyLen), FALSE)]

\* 0-based range [lo, hi) of the on-wire bytes of packet i
WireLo(ps, i) == Len(Flatten([j \in 1..(i - 1) |-> StuffBytes(ps[j])]))
WireHi(ps, i) == WireLo(ps, i) + Len(StuffBytes(ps[i]))

\* the packets with bytes in the CADU at 0-based index c
Carried(ps, c) ==
    {i \in 1..Len(ps) : WireLo(ps, i) < (c + 1) * caduBodyLen
                        /\ WireHi(ps, i) > c * caduBodyLen}

FirstSeq == 100

\* a well-formed stream, or one from which a single CADU has been removed
InitStream ==
    /\ \E ks \in KindSeqs :
          LET ps == Packets(ks)
              fs == Cadus(Wire(ps), FirstSeq)
          IN  /\ packets = ps
              /\ \E at \in 0..(Len(fs) - 1), k \in 0..1 :
                    /\ k = 0 => at = 0
                    /\ lost = [at |-> at, k |-> k]
                    /\ frames = Remove(fs, at, k)
    /\ files = <<>> /\ pos = 0 /\ counter = 0 /\ reads = <<>> /\ rest = <<>>
    /\ size = 0 /\ written = 0 /\ out = <<>>

\* the buffers the HRDL reader returned without an error, oldest first
RECURSIVE Emitted(_)
Emitted(o) ==
    IF o = <<>> THEN <<>>
    ELSE IF Head(o).err.kind \in {"nil", "full"}
         THEN <<Head(o).buf>> \o Emitted(Tail(o))
         ELSE Emitted(Tail(o))

-----------------------------------------------------------------------------
(* hrdlReader over nextPacket (cmd/cadu2hrdl/rw.go, first revision) *)

\* first loop of nextPacket: read until the buffer holds a sync word
RECURSIVE SyncLoop(_, _, _, _)
SyncLoop(p, ctr, buffer, offset) ==
    IF p >= Len(frames)
    THEN [err |-> EOF, pos |-> p, counter |-> ctr, buffer |-> <<>>]
    ELSE LET r == VcduRead(frames[p + 1], ctr)
             b == buffer \o r.body
             n == Len(r.body)
         IN  IF r.err # NoErr
             THEN [err |-> r.err, pos |-> p + 1, counter |-> r.counter, buffer |-> <<>>]
             ELSE IF Slice(b, 0, WordLen) = Word
             THEN [err |-> NoErr, pos |-> p + 1, counter |-> r.counter, buffer |-> b]
             ELSE IF Len(From(b, offset)) > WordLen /\ Index(From(b, offset), Word) >= 0
             THEN [err |-> NoErr, pos |-> p + 1, counter |-> r.counter,
                   buffer |-> From(b, offset + Index(From(b, offset), Word))]
             ELSE SyncLoop(p + 1, r.counter, b, offset + n - WordLen)

\* second loop of nextPacket: read until the next sync word
RECURSIVE FillLoop(_, _, _, _)
FillLoop(p, ctr, buffer, offset) ==
    IF p >= Len(frames)
    THEN [err |-> EOF, pos |-> p, counter |-> ctr, buffer |-> <<>>, rest |-> <<>>]
    ELSE LET r  == VcduRead(frames[p + 1], ctr)
             b  == buffer \o r.body
             ix == Index(From(b, offset), Word)
         IN  IF r.err # NoErr
             THEN [err |-> r.err, pos |-> p + 1, counter |-> r.counter,
                   buffer |-> <<>>, rest |-> <<>>]
             ELSE IF ix >= 0
             THEN [err |-> NoErr, pos |-> p + 1, counter |-> r.counter,
                   buffer |-> Slice(b, 0, offset + ix), rest |-> From(b, offset + ix)]
             ELSE FillLoop(p + 1, r.counter, b, offset + Len(r.body) - WordLen)

\* nextPacket(r, rest): (buffer, rest, err) and the reader's position after it
nextPacket(p, ctr, rs) ==
    LET s == SyncLoop(p, ctr, rs, 0)
    IN  IF s.err # NoErr
        THEN [err |-> s.err, pos |-> s.pos, counter |-> s.counter,
              buffer |-> <<>>, rest |-> <<>>]
        ELSE FillLoop(s.pos, s.counter, s.buffer, WordLen)

\* one call of hrdlReader.Read
HrdlRead ==
    /\ stage = "read"
    /\ LET r == nextPacket(pos, counter, rest)
       IN  /\ pos' = r.pos
           /\ counter' = r.counter
           /\ rest' = IF r.err = NoErr THEN r.rest ELSE <<>>
           /\ out' = Append(out, [buf |-> IF r.err = NoErr THEN UnstuffBody(r.buffer)
                                                           ELSE <<>>,
                                  err |-> r.err])
           /\ stage' = IF r.err = EOF THEN "eof" ELSE "read"
    /\ UNCHANGED <<files, packets, frames, lost, reads, size, written>>
    /\ UNCHANGED stuffVars /\ UNCHANGED taskVars /\ UNCHANGED validVars

InitHrdl == InitStream /\ NoStuff /\ NoValidate /\ NoTasks /\ stage = "read"

NextHrdl == HrdlRead

SpecHrdl == InitHrdl /\ [][NextHrdl]_vars

\* C1: over a well-formed stream of H1..Hn, reads until EOF return exactly n
\* buffers, the i-th equal to Hi
C1_Reassembly ==
    (stage = "eof" /\ lost.k = 0) => Emitted(out) = packets

\* the bytes the reader has accumulated for the last packet when the input
\* ends: from its sync word to the end of the last CADU
Accumulated == Len(frames) * caduBodyLen - WireLo(packets, Len(packets))

\* a buffer was emitted for the last packet of the stream
LastEmitted ==
    \E m \in 1..Len(out) :
       /\ out[m].err = NoErr /\ Len(out[m].buf) > hrdlHeaderLen
       /\ Slice(out[m].buf, 0, hrdlHeaderLen + 1)
             = Slice(packets[Len(packets)], 0, hrdlHeaderLen + 1)

\* C28: when the input ends (whole, or cut before its last CADU) while the last
\* packet is being filled, that packet is emitted if the bytes accumulated are
\* at least LENGTH + 12, and otherwise EOF is returned and no buffer is emitted
\* for it
C28_EofWhileFilling ==
    (/\ stage = "eof"
     /\ lost.k = 0 \/ lost.at = Len(frames))
    => /\ out[Len(out)].err = EOF
       /\ LastEmitted <=> Accumulated >= Len(packets[Len(packets)])

-----------------------------------------------------------------------------
(* Builder.Read and Decoder.Decode (hrdl.go) *)

ErrFull == [kind |-> "full", a |-> 0, b |-> 0]
Panic == [kind |-> "panic", a |-> 0, b |-> 0]
LengthError(want, got) == [kind |-> "length", a |-> want, b |-> got]
ChecksumError(want, got) == [kind |-> "checksum", a |-> want, b |-> got]

\* len(d.buffer), the slice Decoder.Decode hands to Builder.Read (8 MiB in the
\* source, scaled with the CADU body)
DecoderBuf == 16 * caduBodyLen

\* the result of one Builder.Read: the bytes returned, the error, and the
\* fields of the Builder and of its reader afterwards
BRes(buf, err, p, ctr, carry, sz, bw) ==
    [buf |-> buf, err |-> err, pos |-> p, counter |-> ctr,
     buffer |-> carry, size |-> sz, written |-> bw]

\* the exit by length: b.written >= b.size after n more bytes
ByLength(bs, p, ctr, sz, bw) ==
    LET diff == bw - sz
    IN  IF Len(bs) - diff < 0
        THEN BRes(<<>>, Panic, p, ctr, <<>>, sz, bw)
        ELSE BRes(Slice(bs, 0, Len(bs) - diff), ErrFull, p, ctr,
                  From(bs, Len(bs) - diff), 0, 0)

\* the loop that fills the packet (and the code after the loop)
RECURSIVE BuilderFill(_, _, _, _, _, _)
BuilderFill(p, ctr, bs, offset, sz, bw) ==
    IF Len(bs) + caduBodyLen < DecoderBuf
    THEN LET off == IF offset >= Len(Word) THEN offset - Len(Word) ELSE offset
             ix  == Index(From(bs, off), Word)
         IN  IF ix >= 0
             THEN BRes(Slice(bs, 0, off + ix), ErrFull, p, ctr, From(bs, off + ix), 0, 0)
             ELSE IF p >= Len(frames)
             THEN BRes(<<>>, EOF, p, ctr, <<>>, sz, bw)
             ELSE LET r == VcduRead(frames[p + 1], ctr)
                      b2 == bs \o r.body
                      w2 == bw + Len(r.body)
                  IN  IF r.err # NoErr
                      THEN BRes(<<>>, r.err, p + 1, r.counter, <<>>, sz, bw)
                      ELSE IF w2 >= sz
                      THEN ByLength(b2, p + 1, r.counter, sz, w2)
                      ELSE BuilderFill(p + 1, r.counter, b2, Len(bs), sz, w2)
    ELSE LET ix == Index(From(bs, offset), Word)
         IN  IF ix >= 0
             THEN BRes(Slice(bs, 0, offset + ix), ErrFull, p, ctr,
                       From(bs, offset + ix), 0, 0)
             ELSE IF bw >= sz
             THEN ByLength(bs, p, ctr, sz, bw)
             ELSE BRes(bs, NoErr, p, ctr, <<>>, sz, bw)

\* after the sync word is at bs[0]: the header, then the packet
BuilderHeader(p, ctr, bs) ==
    LET sz == Uint32LE(From(bs, 4)) + hrdlMetaLen
        ix == Index(From(bs, Len(Word)), Word)
    IN  IF ix >= 0
        THEN BRes(Slice(bs, 0, Len(Word) + ix), ErrFull, p, ctr,
                  From(bs, Len(Word) + ix), 0, 0)
        ELSE BuilderFill(p, ctr, bs, Len(bs), sz, Len(bs))

\* the loop that searches the sync word, b.size = 0
RECURSIVE BuilderSearch(_, _, _)
BuilderSearch(p, ctr, bs) ==
    LET ix == Index(bs, Word)
    IN  IF ix >= 0
        THEN LET found == From(bs, ix)
             IN  IF Len(found) < hrdlHeaderLen + 16
                 THEN IF p >= Len(frames)
                      THEN BRes(<<>>, EOF, p, ctr, <<>>, 0, 0)
                      ELSE LET r == VcduRead(frames[p + 1], ctr)
                           IN  IF r.err # NoErr
                               THEN BRes(<<>>, r.err, p + 1, r.counter, <<>>, 0, 0)
                               ELSE BuilderHeader(p + 1, r.counter, found \o r.body)
                 ELSE BuilderHeader(p, ctr, found)
        ELSE LET kept == IF Len(bs) + caduBodyLen > DecoderBuf
                         THEN From(bs, Len(bs) - Len(Word)) ELSE bs
             IN  IF p >= Len(frames)
                 THEN BRes(<<>>, EOF, p, ctr, <<>>, 0, 0)
                 ELSE LET r == VcduRead(frames[p + 1], ctr)
                      IN  IF r.err # NoErr
                          THEN BRes(<<>>, r.err, p + 1, r.counter, <<>>, 0, 0)
                          ELSE BuilderSearch(p + 1, r.counter, kept \o r.body)

\* Builder.Read(bs) with len(bs) = DecoderBuf
BuilderRead(p, ctr, carry, sz, bw) ==
    IF sz = 0
    THEN BuilderSearch(p, ctr, carry)
    ELSE BuilderFill(p, ctr, carry, 0, sz, bw)

\* the bytes decodeHRDLHeader consumes after SYNC and LENGTH: the VMU header,
\* the HRD common header and the UPI slot chosen by Property >> 4
vmuHeaderLen == 16
hrdHeaderLen == 24
UPILen(buf) ==
    IF Len(buf) < hrdlHeaderLen + vmuHeaderLen + 1 THEN 0
    ELSE LET kind == buf[hrdlHeaderLen + vmuHeaderLen + 1] \div 16
         IN  IF kind = 1 THEN 32 ELSE IF kind = 2 THEN 52 ELSE 0

\* Decoder.Decode on the n bytes and the error of Builder.Read: the error it
\* returns
Decode(buf, err) ==
    IF err \notin {ErrFull, NoErr} THEN err
    ELSE LET n    == Len(buf)
             hdr  == Min(n, hrdlHeaderLen + vmuHeaderLen + hrdHeaderLen + UPILen(buf))
             left == n - hdr
             hsz  == IF n >= 8 THEN Uint32LE(From(buf, 4)) ELSE 0
         IN  IF left - hrdlMetaLen < 0 THEN Panic
             ELSE IF n # hsz + hrdlMetaLen THEN LengthError(hsz, n)
             ELSE NoErr

\* the *Erdle the decoders return: nil, or a record whose header holds the
\* SYNC and LENGTH words of the buffer
NilErdle == [nil |-> TRUE, sync |-> <<>>, size |-> 0]
Erdle(buf) == [nil |-> FALSE, sync |-> Slice(buf, 0, WordLen),
               size |-> Uint32LE(From(buf, 4))]

\* Decoder.Decode: the record it returns next to the error
DecodeRec(buf, err) ==
    IF err \notin {ErrFull, NoErr} \/ Decode(buf, err) = Panic
    THEN NilErdle
    ELSE Erdle(buf)

\* one call of Builder.Read by a caller that keeps the bytes (debugHRDLPackets)
BuilderReadStep ==
    /\ stage = "read"
    /\ LET r == BuilderRead(pos, counter, rest, size, written)
       IN  /\ pos' = r.pos
           /\ counter' = r.counter
           /\ rest' = r.buffer
           /\ size' = r.size
           /\ written' = r.written
           /\ out' = Append(out, [buf |-> r.buf, err |-> r.err, dec |-> NoErr,
                                  rec |-> NilErdle])
           /\ stage' = IF r.err = EOF THEN "eof"
                       ELSE IF r.err = Panic THEN "panic"
                       ELSE "read"
    /\ UNCHANGED <<files, packets, frames, lost, reads>>
    /\ UNCHANGED stuffVars /\ UNCHANGED taskVars /\ UNCHANGED validVars

\* one call of Decoder.Decode over the Builder
DecodeStep ==
    /\ stage = "read"
    /\ LET r == BuilderRead(pos, counter, rest, size, written)
       IN  /\ pos' = r.pos
           /\ counter' = r.counter
           /\ rest' = r.buffer
           /\ size' = r.size
           /\ written' = r.written
           /\ out' = Append(out, [buf |-> r.buf, err |-> r.err,
                                  dec |-> Decode(r.buf, r.err),
                                  rec |-> DecodeRec(r.buf, r.err)])
           /\ stage' = IF r.err = EOF THEN "eof"
                       ELSE IF r.err = Panic \/ Decode(r.buf, r.err) = Panic THEN "panic"
                       ELSE "read"
    /\ UNCHANGED <<files, packets, frames, lost, reads>>
    /\ UNCHANGED stuffVars /\ UNCHANGED taskVars /\ UNCHANGED validVars

\* the bytes the frames carry, in order
OnWire == Flatten([i \in 1..Len(frames) |-> frames[i].body])

\* the packets whose on-wire bytes are not the ones the producer sent
Changed ==
    {j \in 1..Len(packets) :
        Slice(OnWire, WireLo(packets, j), WireHi(packets, j)) # StuffBytes(packets[j])}

\* a well-formed stream in which one BODY byte of one packet has been changed
\* on the wire
InitMutated ==
    /\ \E ks \in KindSeqs :
          LET ps == Packets(ks)
              w  == Wire(ps)
          IN  /\ packets = ps
              /\ \E j \in 1..Len(ps) :
                    \E at \in (WireLo(ps, j) + hrdlHeaderLen)..(WireHi(ps, j) - hrdlTrailerLen - 1) :
                       frames = Cadus([w EXCEPT ![at + 1] = (w[at + 1] + 1) % 256], FirstSeq)
    /\ lost = [at |-> 0, k |-> 0]
    /\ files = <<>> /\ pos = 0 /\ counter = 0 /\ reads = <<>> /\ rest = <<>>
    /\ size = 0 /\ written = 0 /\ out = <<>>

InitBuilder == InitStream /\ NoStuff /\ NoValidate /\ NoTasks /\ stage = "read"

NextBuilder == BuilderReadStep \/ DecodeStep

SpecBuilder == InitBuilder /\ [][NextBuilder]_vars

InitDecode == InitMutated /\ NoStuff /\ NoValidate /\ NoTasks /\ stage = "read"

NextDecode == DecodeStep

SpecDecode == InitDecode /\ [][NextDecode]_vars

\* C9: when one BODY byte of a packet has been changed, the decoder returns for
\* that packet a ChecksumError whose Want differs from its Got
C9_ChecksumDetected ==
    \A m \in 1..Len(out) :
       (/\ out[m].err \in {NoErr, ErrFull}
        /\ out[m].dec # Panic
        /\ \E j \in Changed :
              out[m].buf = Slice(OnWire, WireLo(packets, j), WireHi(packets, j)))
       => (out[m].dec.kind = "checksum" /\ out[m].dec.a # out[m].dec.b)

\* C40: Decoder.Decode returns a record or an error for every buffer that
\* Builder.Read emits, however short: it never ends in a runtime panic
C40_DecodeNeverPanics ==
    \A m \in 1..Len(out) : out[m].dec # Panic

\* C3: when the CADU reader reports a missing-frame error the in-flight packet is
\* abandoned: the carry-over is discarded, the reader is back to searching the
\* sync word (Builder.size = 0, nothing counted as written), and every buffer
\* returned afterwards starts at a sync word
C3_AbandonOnGap ==
    /\ (out # <<>> /\ out[Len(out)].err.kind = "missing")
          => (rest = <<>> /\ size = 0 /\ written = 0)
    /\ \A i \in 2..Len(out) :
          (out[i - 1].err.kind = "missing" /\ out[i].err.kind \in {"nil", "full"})
             => Slice(out[i].buf, 0, WordLen) = Word

\* the first call of Builder.Read after the last ErrFull before call m
PacketStart(m) ==
    LET before == {j \in 1..(m - 1) : out[j].err = ErrFull}
    IN  IF before = {} THEN 1
        ELSE (CHOOSE j \in before : \A i \in before : i <= j) + 1

\* the chunks returned since then, call m included, end to end
PacketAt(m) ==
    Flatten([i \in 1..(m - PacketStart(m) + 1) |-> out[PacketStart(m) + i - 1].buf])

\* the bytes of the CADUs read so far
Consumed == Slice(OnWire, 0, pos * caduBodyLen)

\* C31: when Builder.Read returns ErrFull, the chunks returned since the
\* previous ErrFull are one packet X: it starts at a sync word and ends either
\* where the next sync word begins (the carry starts with it) or at the
\* declared LENGTH + 12 bytes; the bytes read after X are the carry, and size
\* and written are zero
C31_ExitRules ==
    (out # <<>> /\ out[Len(out)].err = ErrFull) =>
       LET X == PacketAt(Len(out))
       IN  /\ size = 0 /\ written = 0
           /\ Len(X) >= hrdlHeaderLen
           /\ Slice(X, 0, WordLen) = Word
           /\ Len(Consumed) >= Len(X) + Len(rest)
           /\ X \o rest = From(Consumed, Len(Consumed) - Len(X) - Len(rest))
           /\ \/ /\ Len(rest) >= WordLen
                 /\ Slice(rest, 0, WordLen) = Word
                 /\ Index(From(X, WordLen), Word) < 0
              \/ Len(X) = Uint32LE(From(X, 4)) + hrdlMetaLen

-----------------------------------------------------------------------------
(* The loop around io.Copy over the Builder (part_000: Relay, ring.fill) *)

\* IsErdleError as in erdle.go 43-53: LengthError and ChecksumError only
IsErdleErrorA(err) == err.kind \in {"length", "checksum"}

\* IsErdleError as in erdle.go 257-270: ErrFull and MissingCaduError as well
IsErdleErrorB(err) == err.kind \in {"full", "length", "checksum", "missing"}

\* the IsErdleError of the build: stage tells which one the loop is linked with
IsErdleError(err) ==
    IF stage = "copyA" THEN IsErdleErrorA(err) ELSE IsErdleErrorB(err)

\* one Read of the Builder inside `for { _, err := io.Copy(w, rs); if
\* !erdle.IsErdleError(err) { return } }`: io.Copy writes the bytes read and
\* goes on after a nil error; any other error ends io.Copy, and the loop calls
\* it again only for an error that IsErdleError accepts
CopyStep ==
    /\ stage \in {"copyA", "copyB"}
    /\ LET r == BuilderRead(pos, counter, rest, size, written)
       IN  /\ pos' = r.pos
           /\ counter' = r.counter
           /\ rest' = r.buffer
           /\ size' = r.size
           /\ written' = r.written
           /\ out' = Append(out, [buf |-> r.buf, err |-> r.err, dec |-> NoErr,
                                  rec |-> NilErdle])
           /\ stage' = IF r.err = Panic THEN "panic"
                       ELSE IF r.err = NoErr \/ IsErdleError(r.err) THEN stage
                       ELSE IF r.err = EOF THEN "eof"
                       ELSE "returned"
    /\ UNCHANGED <<files, packets, frames, lost, reads>>
    /\ UNCHANGED stuffVars /\ UNCHANGED taskVars /\ UNCHANGED validVars

InitCopy ==
    /\ InitStream /\ NoStuff /\ NoValidate /\ NoTasks
    /\ stage \in {"copyA", "copyB"}

NextCopy == CopyStep

SpecCopy == InitCopy /\ [][NextCopy]_vars

\* C29: ErrFull comes with the last bytes of a packet, never alone, and it does
\* not end the loop: IsErdleError accepts it and the next packet is read
C29_FullIsNoFailure ==
    \A m \in 1..Len(out) :
       out[m].err = ErrFull =>
          /\ out[m].buf # <<>>
          /\ m = Len(out) => stage \in {"copyA", "copyB"}

-----------------------------------------------------------------------------
(* assembler.Read (hrdl.go): the reader behind Reassemble and DecodeHRDL *)

\* bytes.Replace(bs, Stuff, Stuff[:3], -1)
RECURSIVE stuffBytes(_)
stuffBytes(bs) ==
    IF Len(bs) < Len(Stuff) THEN bs
    ELSE IF Slice(bs, 0, Len(Stuff)) = Stuff
         THEN Slice(Stuff, 0, 3) \o stuffBytes(From(bs, Len(Stuff)))
         ELSE <<bs[1]>> \o stuffBytes(Tail(bs))

\* the 2048 bytes of copyHRDL's search window, two CADUs, scaled
copyWindow == 2 * caduBodyLen

\* verifyHRDL(bs)
verifyHRDL(bs) ==
    LET g == SumBytes(Slice(bs, 8, Len(bs) - 4))
        w == Uint32LE(From(bs, Len(bs) - 4))
    IN  IF g # w THEN ChecksumError(w, g) ELSE NoErr

\* assembler.copyHRDL(bs): the count and error returned, the bytes written to
\* r.rest
copyHRDL(bs) ==
    IF Len(bs) < 8 \/ Slice(bs, 0, Len(Word)) # Word
    THEN [n |-> 0, err |-> NoErr, rest |-> <<>>]
    ELSE LET offset == IF Len(bs) - copyWindow <= 0 THEN Len(Word)
                       ELSE Len(bs) - copyWindow
             ix     == Index(From(bs, offset), Word)
             z      == ix + offset
             sz     == Uint32LE(From(bs, Len(Word)))
         IN  IF ix < 0 THEN [n |-> 0, err |-> NoErr, rest |-> <<>>]
             ELSE IF sz + hrdlMetaLen > z
             THEN [n |-> z, err |-> LengthError(sz + hrdlMetaLen, z), rest |-> From(bs, z)]
             ELSE IF verifyHRDL(Slice(bs, 0, sz + hrdlMetaLen)) # NoErr
             THEN [n |-> z, err |-> verifyHRDL(Slice(bs, 0, sz + hrdlMetaLen)),
                   rest |-> From(bs, z)]
             ELSE [n |-> sz + hrdlMetaLen, err |-> NoErr, rest |-> From(bs, z)]

\* the result of assembler.Read: bs[:n], the error, r.rest and the position in
\* the input afterwards, and all the bytes written to bs
ARes(buf, err, rs, p, bs) ==
    [buf |-> buf, err |-> err, rest |-> rs, pos |-> p, all |-> bs]

\* second loop of assembler.Read; bs is bs[:written]
RECURSIVE AsmFill(_, _)
AsmFill(p, bs) ==
    LET c == copyHRDL(bs)
    IN  IF c.n > 0 THEN ARes(Slice(bs, 0, c.n), c.err, c.rest, p, bs)
        ELSE IF p >= Len(frames) THEN ARes(<<>>, EOF, <<>>, p, bs)
        ELSE LET all == bs \o frames[p + 1].body
                 lo  == Len(bs) - 4
                 u   == stuffBytes(From(all, lo))
             IN  AsmFill(p + 1, Slice(all, 0, lo) \o u \o From(all, lo + Len(u)))

\* first loop of assembler.Read
RECURSIVE AsmSync(_, _)
AsmSync(p, bs) ==
    IF p >= Len(frames) THEN ARes(<<>>, EOF, <<>>, p, bs)
    ELSE LET all == bs \o frames[p + 1].body
             ix  == Index(all, Word)
         IN  IF ix >= 0 THEN AsmFill(p + 1, stuffBytes(From(all, ix)))
             ELSE AsmSync(p + 1, all)

\* assembler.Read(bs), bs large enough for what is read
AsmRead(p, rs) ==
    LET c == copyHRDL(rs)
    IN  IF c.n > 0 THEN ARes(Slice(rs, 0, c.n), c.err, c.rest, p, rs)
        ELSE AsmSync(p, rs)

\* one call of assembler.Read (readCadu keeps the sequence counter and reports
\* no gap)
AssemblerRead ==
    /\ stage = "read"
    /\ LET r == AsmRead(pos, rest)
       IN  /\ pos' = r.pos
           /\ counter' = IF r.pos > 0 THEN frames[r.pos].seq ELSE counter
           /\ rest' = r.rest
           /\ out' = Append(out, [buf |-> r.buf, err |-> r.err])
           /\ stage' = IF r.err = EOF THEN "eof" ELSE "read"
    /\ UNCHANGED <<files, packets, frames, lost, reads, size, written>>
    /\ UNCHANGED stuffVars /\ UNCHANGED taskVars /\ UNCHANGED validVars

InitAsm == InitStream /\ NoStuff /\ NoValidate /\ NoTasks /\ stage = "read"

NextAsm == AssemblerRead

SpecAsm == InitAsm /\ [][NextAsm]_vars

\* one turn of the loop of reassemble (part_001): xs is a new array of
\* len(d.buffer) bytes, cut to xs[:n] when Read returns no error; after a
\* LengthError or a ChecksumError the turn ends when keep is not set and goes
\* on to the send otherwise; the send drops xs when the channel is full
ReassembleKeep ==
    /\ stage = "read"
    /\ LET r  == AsmRead(pos, rest)
           xs == IF r.err = NoErr THEN r.buf
                 ELSE [i \in 1..DecoderBuf |->
                          IF i <= Len(r.all) THEN r.all[i] ELSE 0]
           send == r.err = NoErr \/ (IsErdleErrorB(r.err) /\ keep)
       IN  /\ pos' = r.pos
           /\ counter' = IF r.pos > 0 THEN frames[r.pos].seq ELSE counter
           /\ rest' = r.rest
           /\ out' = Append(out, [buf |-> r.buf, err |-> r.err])
           /\ queue' = IF send /\ Len(queue) < QueueCap THEN Append(queue, xs)
                       ELSE queue
           /\ relay' = IF send /\ Len(queue) >= QueueCap
                       THEN [relay EXCEPT !.dropped = @ + 1] ELSE relay
           /\ stage' = IF r.err = EOF THEN "eof"
                       ELSE IF r.err # NoErr /\ ~IsErdleErrorB(r.err) THEN "returned"
                       ELSE "read"
    /\ UNCHANGED <<files, packets, frames, lost, reads, size, written>>
    /\ UNCHANGED stuffVars /\ UNCHANGED taskVars /\ UNCHANGED <<keep, q, stats>>

\* relayConn receives a buffer and writes it to the connection
RelayConn ==
    /\ stage \in {"read", "eof"}
    /\ queue # <<>>
    /\ queue' = Tail(queue)
    /\ UNCHANGED <<keep, q, stats, relay, stage>>
    /\ UNCHANGED streamVars /\ UNCHANGED stuffVars /\ UNCHANGED taskVars

InitKeep ==
    /\ InitStream /\ NoStuff /\ NoTasks
    /\ queue = <<>> /\ keep \in BOOLEAN /\ q = <<>>
    /\ stats = [count |-> 0, size |-> 0, dropped |-> 0, errLength |-> 0, errSum |-> 0]
    /\ relay = NoRelay
    /\ stage = "read"

NextKeep == ReassembleKeep \/ RelayConn

SpecKeep == InitKeep /\ [][NextKeep]_vars

\* C35: a buffer that reassemble puts on its queue is exactly the n bytes
\* that Read returned for the packet, whether the packet is valid or an
\* invalid one kept because keep is set; without keep no invalid packet is
\* put on the queue
C35_ForwardedExactly ==
    [][Len(out') = Len(out) + 1 =>
          LET r == out'[Len(out')]
          IN  /\ (Len(queue') = Len(queue) + 1)
                    => queue'[Len(queue')] = r.buf
              /\ (r.err # NoErr /\ ~keep) => queue' = queue
      ]_vars

\* C7: over a stream without loss every buffer the reader returns has its
\* stuffed sequences F8 2E 35 AA 53 restored to F8 2E 35 53, is exactly
\* LENGTH + 12 bytes long (one byte less per stuffed occurrence, nothing stale
\* or duplicated after the packet), and its trailer is the byte sum of its BODY
C7_Unstuffed ==
    lost.k = 0 =>
       \A m \in 1..Len(out) :
          LET b == out[m].buf
          IN  Len(b) > 0 =>
                 /\ Len(b) >= hrdlMetaLen
                 /\ Index(b, Stuff \o <<83>>) < 0
                 /\ Len(b) = Uint32LE(From(b, 4)) + hrdlMetaLen
                 /\ SumOK(b)

-----------------------------------------------------------------------------
(* DecodeHRDL over the assembler (hrdl.go) *)

\* DecodeHRDL(r) with r an *assembler, on the n bytes and the error of a.Read:
\* the record and the error returned
DecodeHRDL(buf, err) ==
    IF err # NoErr THEN [rec |-> NilErdle, err |-> err]
    ELSE LET n    == Len(buf)
             base == hrdlHeaderLen + vmuHeaderLen + hrdHeaderLen
             hdr  == Min(n, base + UPILen(buf))
         IN  IF UPILen(buf) > 0 /\ n <= base THEN [rec |-> NilErdle, err |-> EOF]
             ELSE IF n - hdr - hrdlTrailerLen < 0 THEN [rec |-> NilErdle, err |-> Panic]
             ELSE [rec |-> Erdle(buf), err |-> NoErr]

\* one call of DecodeHRDL over the assembler
DecodeHRDLStep ==
    /\ stage = "asm"
    /\ LET r == AsmRead(pos, rest)
           d == DecodeHRDL(r.buf, r.err)
       IN  /\ pos' = r.pos
           /\ counter' = IF r.pos > 0 THEN frames[r.pos].seq ELSE counter
           /\ rest' = r.rest
           /\ out' = Append(out, [buf |-> r.buf, err |-> r.err,
                                  dec |-> d.err, rec |-> d.rec])
           /\ stage' = IF r.err = EOF THEN "eof"
                       ELSE IF d.err = Panic THEN "panic"
                       ELSE "asm"
    /\ UNCHANGED <<files, packets, frames, lost, reads, size, written>>
    /\ UNCHANGED stuffVars /\ UNCHANGED taskVars /\ UNCHANGED validVars

\* a stream, whole, with one CADU lost or with one BODY byte changed, under a
\* Decoder over the Builder ("read") or under DecodeHRDL over the assembler
InitPartial ==
    /\ InitStream \/ InitMutated
    /\ NoStuff /\ NoValidate /\ NoTasks
    /\ stage \in {"read", "asm"}

NextPartial == DecodeStep \/ DecodeHRDLStep

SpecPartial == InitPartial /\ [][NextPartial]_vars

\* the buffer a decoder was handed has not its declared length
BadLength(b) == Len(b) # Uint32LE(From(b, 4)) + hrdlMetaLen

\* C20: when the buffer a decoder is handed fails validation (its length is not
\* LENGTH + 12, or its trailer is not the sum of its BODY), the decoder returns
\* a non-nil record with the header populated together with a LengthError,
\* respectively a ChecksumError
C20_PartialSuccess ==
    \A m \in 1..Len(out) :
       LET b == out[m].buf
       IN  (/\ Len(b) >= hrdlMetaLen
            /\ out[m].dec # Panic
            /\ BadLength(b) \/ ~SumOK(b))
           => /\ ~out[m].rec.nil
              /\ out[m].rec.size = Uint32LE(From(b, 4))
              /\ out[m].dec.kind \in {"length", "checksum"}
              /\ ~BadLength(b) => out[m].dec.kind = "checksum"
              /\ out[m].dec.kind = "length" => BadLength(b)

-----------------------------------------------------------------------------
(* Specification of the stuffing round trip *)

InitStuff ==
    /\ NoStream /\ NoValidate /\ NoTasks
    /\ src \in StuffInputs
    /\ stuffed = <<>> /\ unstuffed = <<>>
    /\ stage = "input"

DoStuff ==
    /\ stage = "input"
    /\ stuffed' = StuffBytes(src)
    /\ stage' = "stuffed"
    /\ UNCHANGED <<src, unstuffed>>
    /\ UNCHANGED streamVars /\ UNCHANGED validVars /\ UNCHANGED taskVars

DoUnstuff ==
    /\ stage = "stuffed"
    /\ unstuffed' = UnstuffBytes(stuffed)
    /\ stage' = "unstuffed"
    /\ UNCHANGED <<src, stuffed>>
    /\ UNCHANGED streamVars /\ UNCHANGED validVars /\ UNCHANGED taskVars

NextStuff == DoStuff \/ DoUnstuff

SpecStuff == InitStuff /\ [][NextStuff]_vars

\* buffers whose LENGTH field holds bytes of the marker F8 2E 35 AA, which then
\* starts at offset 4, 5, 6 or 7
HeaderInputs ==
    LET tails == {<<1, 2>>, Stuff \o <<83, 1>>, Word \o <<1>>}
    IN  {Word \o Slice(<<1, 1, 1>> \o Stuff, k, 7) \o t : k \in 0..3, t \in tails}

InitRaw ==
    /\ NoStream /\ NoValidate /\ NoTasks
    /\ src \in StuffInputs \cup HeaderInputs
    /\ stuffed = <<>> /\ unstuffed = <<>>
    /\ stage = "input"

SpecRaw == InitRaw /\ [][NextStuff]_vars

C6_RoundTrip == stage = "unstuffed" => unstuffed = src

-----------------------------------------------------------------------------
(* UnstuffBytes on a packet followed by filler CADUs *)

\* the reader appends whole filler bodies to the buffer until the next sync word
DoFill ==
    /\ stage = "stuffed"
    /\ \E k \in 1..MaxFill : stuffed' = stuffed \o Zeros(k * caduBodyLen)
    /\ stage' = "filled"
    /\ UNCHANGED <<src, unstuffed>>
    /\ UNCHANGED streamVars /\ UNCHANGED validVars /\ UNCHANGED taskVars

DoTrim ==
    /\ stage = "filled"
    /\ unstuffed' = UnstuffBytes(stuffed)
    /\ stage' = "trimmed"
    /\ UNCHANGED <<src, stuffed>>
    /\ UNCHANGED streamVars /\ UNCHANGED validVars /\ UNCHANGED taskVars

NextFill == DoStuff \/ DoFill \/ DoTrim

SpecFill == InitStuff /\ [][NextFill]_vars

\* C8: when the accumulated on-wire packet, stuffed bytes or not, ends with
\* k >= 1 filler bodies of zeros beyond the declared length, the emitted buffer
\* has exactly LENGTH + 12 bytes
C8_FillerTrimmed ==
    stage = "trimmed" => Len(unstuffed) = Uint32LE(From(src, 4)) + hrdlMetaLen

-----------------------------------------------------------------------------
(* validate (cmd/cadu2hrdl/rw.go, second revision) *)

NoStats == [count |-> 0, size |-> 0, dropped |-> 0, errLength |-> 0, errSum |-> 0]

\* a packet with its trailer off by one
BadSum(bs) ==
    Slice(bs, 0, Len(bs) - 4) \o PutUint32LE(Uint32LE(From(bs, Len(bs) - 4)) + 1)

\* the buffers the reassembler may hand over: valid, with a wrong checksum,
\* followed by a filler body, cut short, followed by a byte that is no filler
Buffers ==
    LET valid == {Encode(<<1>>), Encode(<<2, 3>>)}
    IN  valid \cup {BadSum(b) : b \in valid}
              \cup {b \o Zeros(caduBodyLen) : b \in valid}
              \cup {BadSum(b) \o Zeros(caduBodyLen) : b \in valid}
              \cup {Slice(b, 0, Len(b) - 1) : b \in valid}
              \cup {b \o <<7>> : b \in valid}

InitValidate ==
    /\ NoStream /\ NoStuff /\ NoTasks
    /\ queue \in UNION {[1..n -> Buffers] : n \in 1..MaxQueue}
    /\ keep \in BOOLEAN
    /\ q = <<>>
    /\ stats = NoStats
    /\ relay = NoRelay
    /\ stage = "validate"

\* one turn of the loop of validate's goroutine on the next buffer of queue;
\* tick tells whether the one-second ticker has fired.  A buffer shorter than
\* the header makes binary.LittleEndian.Uint32(bs[4:]) panic
ValidateStep ==
    /\ stage \in {"validate", "read", "eof"}
    /\ queue # <<>>
    /\ queue' = Tail(queue)
    /\ LET bs0  == Head(queue)
           z    == Uint32LE(From(bs0, 4)) + 12
           bs   == IF z < Len(bs0) THEN Slice(bs0, 0, z) ELSE bs0
           bad  == SumBytes(Slice(bs, 8, z - 4)) # Uint32LE(From(bs, z - 4))
           sent == Len(q) < QueueCap
           s1   == [stats EXCEPT !.size = @ + Len(bs0)]
       IN  IF Len(bs0) < 8
           THEN /\ stage' = "panic"
                /\ stats' = s1
                /\ q' = q
           ELSE IF z > Len(bs0)
           THEN /\ stats' = [s1 EXCEPT !.errLength = @ + 1]
                /\ q' = q
                /\ stage' = stage
           ELSE LET s2 == IF keep /\ bad THEN [s1 EXCEPT !.errSum = @ + 1] ELSE s1
                    s3 == IF sent THEN [s2 EXCEPT !.count = @ + 1]
                          ELSE [s2 EXCEPT !.dropped = @ + 1]
                IN  /\ q' = IF sent THEN Append(q, From(bs, 8)) ELSE q
                    /\ stage' = stage
                    /\ \E tick \in BOOLEAN :
                          stats' = IF tick /\ s3.count # 0 THEN NoStats ELSE s3
    /\ UNCHANGED <<keep, relay>>
    /\ UNCHANGED streamVars /\ UNCHANGED stuffVars /\ UNCHANGED taskVars

\* the downstream goroutine receives from validate's output channel
Receive ==
    /\ stage \in {"validate", "read", "eof"}
    /\ q # <<>>
    /\ q' = Tail(q)
    /\ UNCHANGED <<queue, keep, stats, relay, stage>>
    /\ UNCHANGED streamVars /\ UNCHANGED stuffVars /\ UNCHANGED taskVars

NextValidate == ValidateStep \/ Receive

SpecValidate == InitValidate /\ [][NextValidate]_vars

\* C11: for either value of keep, validate drops a buffer shorter than
\* LENGTH + 12 and counts a length error; a longer buffer is forwarded only when
\* the excess is zero filler, and whatever is forwarded is the LENGTH + 12 packet
\* bytes (without SYNC and LENGTH, which validate strips)
C11_LengthPolicy ==
    [][(queue # <<>> /\ queue' = Tail(queue)) =>
         LET bs0 == Head(queue)
             z   == Uint32LE(From(bs0, 4)) + 12
         IN  /\ z > Len(bs0) =>
                   (q' = q /\ stats'.errLength = stats.errLength + 1)
             /\ (z < Len(bs0) /\ From(bs0, z) # Zeros(Len(bs0) - z)) => q' = q
             /\ q' # q => q' = Append(q, Slice(bs0, 8, z))]_vars

\* C10: with keep = false validate never forwards a buffer whose trailer differs
\* from the byte sum of its BODY (what is forwarded is BODY and trailer)
C10_ChecksumPolicy ==
    keep = FALSE =>
       \A i \in 1..Len(q) :
          SumBytes(Slice(q[i], 0, Len(q[i]) - 4)) = Uint32LE(From(q[i], Len(q[i]) - 4))

-----------------------------------------------------------------------------
(* The relay: reassemble over nextPacket (cmd/cadu2hrdl/rw.go, second revision) *)

ErrSkip == [kind |-> "skip", a |-> 0, b |-> 0]

\* first loop of nextPacket: a missing-frame error drops the block just read and
\* keeps the buffer
RECURSIVE SkipSyncLoop(_, _, _, _)
SkipSyncLoop(p, ctr, buffer, offset) ==
    IF p >= Len(frames)
    THEN [err |-> EOF, pos |-> p, counter |-> ctr, buffer |-> <<>>]
    ELSE LET r == VcduRead(frames[p + 1], ctr)
             b == buffer \o r.body
             n == Len(r.body)
         IN  IF r.err # NoErr /\ ~IsMissingCadu(r.err)
             THEN [err |-> r.err, pos |-> p + 1, counter |-> r.counter, buffer |-> <<>>]
             ELSE IF r.err # NoErr
             THEN SkipSyncLoop(p + 1, r.counter, buffer, offset)
             ELSE IF Slice(b, 0, WordLen) = Word
             THEN [err |-> NoErr, pos |-> p + 1, counter |-> r.counter, buffer |-> b]
             ELSE IF Len(From(b, offset)) > WordLen /\ Index(From(b, offset), Word) >= 0
             THEN [err |-> NoErr, pos |-> p + 1, counter |-> r.counter,
                   buffer |-> From(b, offset + Index(From(b, offset), Word))]
             ELSE SkipSyncLoop(p + 1, r.counter, b, offset + n - WordLen)

\* second loop of nextPacket: a missing-frame error ends the call with ErrSkip
RECURSIVE SkipFillLoop(_, _, _, _)
SkipFillLoop(p, ctr, buffer, offset) ==
    IF p >= Len(frames)
    THEN [err |-> EOF, pos |-> p, counter |-> ctr, buffer |-> <<>>, rest |-> <<>>]
    ELSE LET r  == VcduRead(frames[p + 1], ctr)
             b  == buffer \o r.body
             ix == Index(From(b, offset), Word)
         IN  IF r.err # NoErr
             THEN [err |-> IF IsMissingCadu(r.err) THEN ErrSkip ELSE r.err,
                   pos |-> p + 1, counter |-> r.counter,
                   buffer |-> <<>>, rest |-> <<>>]
             ELSE IF ix >= 0
             THEN [err |-> NoErr, pos |-> p + 1, counter |-> r.counter,
                   buffer |-> Slice(b, 0, offset + ix), rest |-> From(b, offset + ix)]
             ELSE SkipFillLoop(p + 1, r.counter, b, offset + Len(r.body) - WordLen)

\* nextPacket(r, rest) of the relay
nextPacketSkip(p, ctr, rs) ==
    LET s == SkipSyncLoop(p, ctr, rs, 0)
    IN  IF s.err # NoErr
        THEN [err |-> s.err, pos |-> s.pos, counter |-> s.counter,
              buffer |-> <<>>, rest |-> <<>>]
        ELSE SkipFillLoop(s.pos, s.counter, s.buffer, WordLen)

\* mutant: a packet that finds the channel full is discarded without a trace
ReassembleLoseStep ==
    /\ stage = "read"
    /\ LET r    == nextPacketSkip(pos, counter, rest)
           sent == Len(queue) < QueueCap
       IN  /\ pos' = r.pos
           /\ counter' = r.counter
           /\ rest' = r.rest
           /\ out' = Append(out, [buf |-> r.buffer, err |-> r.err])
           /\ queue' = IF r.err = NoErr /\ r.buffer # <<>> /\ sent
                       THEN Append(queue, r.buffer) ELSE queue
           /\ stage' = IF r.err \in {NoErr, ErrSkip} THEN "read" ELSE "eof"
           /\ relay' = IF r.err = ErrSkip THEN [relay EXCEPT !.skipped = @ + 1]
                       ELSE IF r.err = NoErr /\ r.buffer # <<>> /\ sent
                       THEN [relay EXCEPT !.count = @ + 1]
                       ELSE relay
    /\ UNCHANGED <<files, packets, frames, lost, reads, size, written>>
    /\ UNCHANGED stuffVars /\ UNCHANGED taskVars /\ UNCHANGED <<keep, q, stats>>

\* one turn of the loop of reassemble's goroutine: the buffer is sent on the
\* channel if it has room and dropped otherwise, ErrSkip is counted, any other
\* error ends the goroutine; tick tells whether the ten-second ticker has fired
ReassembleStep ==
    /\ stage = "read"
    /\ LET r    == nextPacketSkip(pos, counter, rest)
           sent == Len(queue) < QueueCap
           c    == IF r.err = ErrSkip
                   THEN [relay EXCEPT !.skipped = @ + 1]
                   ELSE IF r.err # NoErr \/ r.buffer = <<>> THEN relay
                   ELSE IF sent THEN [relay EXCEPT !.count = @ + 1]
                   ELSE [relay EXCEPT !.dropped = @ + 1,
                                      !.size = @ + Len(r.buffer)]
       IN  /\ pos' = r.pos
           /\ counter' = r.counter
           /\ rest' = r.rest
           /\ out' = Append(out, [buf |-> r.buffer, err |-> r.err])
           /\ queue' = IF r.err = NoErr /\ r.buffer # <<>> /\ sent
                       THEN Append(queue, r.buffer) ELSE queue
           /\ stage' = IF r.err \in {NoErr, ErrSkip} THEN "read" ELSE "eof"
           /\ \E tick \in BOOLEAN :
                 relay' = IF r.err \notin {NoErr, ErrSkip} THEN relay
                          ELSE IF tick /\ ~(c.count = 0 /\ c.skipped = 0 /\ c.dropped = 0)
                          THEN NoRelay ELSE c
    /\ UNCHANGED <<files, packets, frames, lost, reads, size, written>>
    /\ UNCHANGED stuffVars /\ UNCHANGED taskVars /\ UNCHANGED <<keep, q, stats>>

InitRelay == InitStream /\ NoStuff /\ NoValidate /\ NoTasks /\ stage = "read"

NextRelay == ReassembleStep \/ ValidateStep \/ Receive

SpecRelay == InitRelay /\ [][NextRelay]_vars

\* the buffers the relay passed on without an error, as a set
Relayed(o) == {o[m].buf : m \in {k \in 1..Len(o) : o[k].err = NoErr}}

\* C2: when exactly one CADU is removed and it carried bytes of packet Hi only,
\* Hi is the only packet missing: every other packet is passed on intact
\* (H(i+1) included, whichever CADU holds its sync word) and nothing else is
\* passed on.  The last packet of the stream, which the reader still holds when
\* the input ends, is left aside, and every packet is longer than two CADU
\* bodies so that no other packet is held back with it.
C2_LossContainment ==
    (/\ stage = "eof" /\ lost.k = 1
     /\ \A j \in 1..Len(packets) : Len(packets[j]) > 2 * caduBodyLen)
    => \A i \in 1..Len(packets) :
          Carried(packets, lost.at) = {i} =>
             /\ \A j \in 1..(Len(packets) - 1) :
                   j # i => StuffBytes(packets[j]) \in Relayed(out)
             /\ Relayed(out) \subseteq
                   {StuffBytes(packets[j]) : j \in 1..Len(packets) \ {i}}

\* C22: a packet completed while the queue is full is discarded, the queue is
\* left as it is and dropped grows by exactly one (until the ticker clears the
\* counters); a packet completed while the queue has room is appended to it and
\* counted; either way the assembler goes on to the next CADU, whether or not
\* the consumer has taken anything
C22_NeverBlocks ==
    [][(/\ Len(out') = Len(out) + 1
        /\ out'[Len(out')].err = NoErr
        /\ out'[Len(out')].buf # <<>>)
       => /\ stage' = "read"
          /\ IF Len(queue) >= QueueCap
             THEN /\ queue' = queue
                  /\ \/ relay' = [relay EXCEPT !.dropped = @ + 1,
                                               !.size = @ + Len(out'[Len(out')].buf)]
                     \/ relay' = NoRelay
             ELSE /\ queue' = Append(queue, out'[Len(out')].buf)
                  /\ \/ relay' = [relay EXCEPT !.count = @ + 1]
                     \/ relay' = NoRelay]_vars

\* a packet was completed while the queue was full and has been dropped
C22_Witness ==
    /\ Len(queue) = QueueCap /\ relay.dropped = 1 /\ relay.count = QueueCap
    /\ Len(Emitted(out)) = QueueCap + 1

-----------------------------------------------------------------------------
(* The relay that counts CRC errors: reassemble (part_016) over nextPacket *)

\* the frames with a CRC mismatch
BadFrames == {c \in 1..Len(frames) : frames[c].got # frames[c].want}

\* a stream without loss in which at most one CADU has a wrong CRC trailer, its
\* body intact
InitCrcStream ==
    /\ \E ks \in KindSeqs :
          LET ps == Packets(ks)
              fs == Cadus(Wire(ps), FirstSeq)
          IN  /\ packets = ps
              /\ \E c \in 0..Len(fs) :
                    frames = [i \in 1..Len(fs) |->
                                 IF i = c THEN [fs[i] EXCEPT !.got = 9] ELSE fs[i]]
    /\ lost = [at |-> 0, k |-> 0]
    /\ files = <<>> /\ pos = 0 /\ counter = 0 /\ reads = <<>> /\ rest = <<>>
    /\ size = 0 /\ written = 0 /\ out = <<>>

\* mutant: any error of the CADU reader ends the goroutine
ReassembleStopStep ==
    /\ stage = "read"
    /\ LET r == nextPacket(pos, counter, rest)
       IN  /\ pos' = r.pos
           /\ counter' = r.counter
           /\ rest' = r.rest
           /\ out' = Append(out, [buf |-> r.buffer, err |-> r.err])
           /\ queue' = IF r.err = NoErr /\ r.buffer # <<>> /\ Len(queue) < QueueCap
                       THEN Append(queue, r.buffer) ELSE queue
           /\ stage' = IF r.err = NoErr THEN "read" ELSE "eof"
    /\ UNCHANGED <<files, packets, frames, lost, reads, size, written>>
    /\ UNCHANGED stuffVars /\ UNCHANGED taskVars /\ UNCHANGED <<keep, q, stats, relay>>

\* one turn of the loop of reassemble's second goroutine: a buffer is sent on
\* the channel if it has room and dropped otherwise; a missing-frame error and a
\* CRC error are counted and the loop goes on; any other error ends it
ReassembleSkipStep ==
    /\ stage = "read"
    /\ LET r    == nextPacket(pos, counter, rest)
           sent == Len(queue) < QueueCap
       IN  /\ pos' = r.pos
           /\ counter' = r.counter
           /\ rest' = r.rest
           /\ out' = Append(out, [buf |-> r.buffer, err |-> r.err])
           /\ queue' = IF r.err = NoErr /\ r.buffer # <<>> /\ sent
                       THEN Append(queue, r.buffer) ELSE queue
           /\ relay' =
                 IF r.err = NoErr
                 THEN IF r.buffer = <<>> THEN relay
                      ELSE IF sent THEN [relay EXCEPT !.count = @ + 1]
                      ELSE [relay EXCEPT !.dropped = @ + 1, !.size = @ + Len(r.buffer)]
                 ELSE IF IsMissingCadu(r.err)
                 THEN [relay EXCEPT !.errMissing = @ + MissingCount(r.err),
                                    !.skipped = @ + 1]
                 ELSE IF IsCRCError(r.err)
                 THEN [relay EXCEPT !.errCRC = @ + 1, !.skipped = @ + 1]
                 ELSE relay
           /\ stage' = IF r.err = NoErr \/ IsMissingCadu(r.err) \/ IsCRCError(r.err)
                       THEN "read" ELSE "eof"
    /\ UNCHANGED <<files, packets, frames, lost, reads, size, written>>
    /\ UNCHANGED stuffVars /\ UNCHANGED taskVars /\ UNCHANGED <<keep, q, stats>>

\* the ticker goroutine of reassemble logs the counters and clears them
AssembleTick ==
    /\ stage \in {"read", "eof"}
    /\ relay.count > 0 \/ relay.skipped > 0
    /\ relay' = NoRelay
    /\ UNCHANGED <<queue, keep, q, stats, stage>>
    /\ UNCHANGED streamVars /\ UNCHANGED stuffVars /\ UNCHANGED taskVars

InitSkip == InitCrcStream /\ NoStuff /\ NoValidate /\ NoTasks /\ stage = "read"

NextSkip == ReassembleSkipStep \/ AssembleTick \/ ValidateStep \/ Receive

SpecSkip == InitSkip /\ [][NextSkip]_vars

\* the same goroutines over a stream from which a CADU may have been removed
InitGap == InitStream /\ NoStuff /\ NoValidate /\ NoTasks /\ stage = "read"

SpecGap == InitGap /\ [][NextSkip]_vars

\* C33: each gap (from, to) that reassemble is told of adds the number of
\* missing frames, ((to - from) mod 2^24) - 1, to the missing counter
C33_MissingCount ==
    [][(/\ Len(out') = Len(out) + 1
        /\ IsMissingCadu(out'[Len(out')].err))
       => relay'.errMissing = relay.errMissing
             + SeqDiff(out'[Len(out')].err.b, out'[Len(out')].err.a) - 1
      ]_vars

\* C13: a CRC error of the CADU reader does not abandon the packet being
\* filled: the bytes of the CADU are used and the packet is still emitted.  (The
\* last packet, which the reader holds when the input ends, is left aside, and
\* every packet is longer than two CADU bodies.)
C13_CrcKeepsPacket ==
    (/\ stage = "eof"
     /\ \A j \in 1..Len(packets) : Len(packets[j]) > 2 * caduBodyLen)
    => \A j \in 1..(Len(packets) - 1) : StuffBytes(packets[j]) \in Relayed(out)

-----------------------------------------------------------------------------
(* cacat: writer.Write (cmd/cacat/main.go), read back by vcduReader.Read *)

vcduCITT == 65535
vcduPOLY == 4129

\* a ^ b on unsigned integers
RECURSIVE Xor(_, _)
Xor(a, b) ==
    IF a = 0 THEN b
    ELSE IF b = 0 THEN a
    ELSE ((a + b) % 2) + 2 * Xor(a \div 2, b \div 2)

\* the inner loop of vcduSum.Write: j more shifts of the 16-bit sum
RECURSIVE SumShift(_, _)
SumShift(sum, j) ==
    IF j = 0 THEN sum
    ELSE IF sum >= 32768
         THEN SumShift(Xor((2 * sum) % 65536, vcduPOLY), j - 1)
         ELSE SumShift((2 * sum) % 65536, j - 1)

\* vcduSum.Write(bs) on the sum so far
RECURSIVE SumWrite(_, _)
SumWrite(sum, bs) ==
    IF bs = <<>> THEN sum
    ELSE SumWrite(SumShift(Xor(sum, 256 * bs[1]), 8), Tail(bs))

\* Sum(bs) of cmd/cacat
Sum(bs) == SumWrite(vcduCITT, bs)

\* binary.BigEndian.PutUint32(.., next << 8) with uint32 arithmetic
PutCounter(next) ==
    <<(next \div 65536) % 256, (next \div 256) % 256, next % 256, 0>>

\* mutant: the frame gets its number and keeps the CRC it came with
WriterWriteKeepsCrc(bs, next) ==
    LET nx == IF next \div 16777216 > 0 THEN 0 ELSE next
    IN  [bs |-> Slice(bs, 0, 6) \o PutCounter(nx) \o From(bs, 10), next |-> nx + 1]

\* writer.Write(bs) with body unset: the frame written and w.next afterwards
WriterWrite(bs, next) ==
    LET nx == IF next \div 16777216 > 0 THEN 0 ELSE next
        b1 == Slice(bs, 0, 6) \o PutCounter(nx) \o From(bs, 10)
        b2 == Slice(b1, 0, CaduLen - 2) \o BE16(Sum(Slice(b1, MagicLen, CaduLen - 2)))
    IN  [bs |-> b2, next |-> nx + 1]

\* the frame of vcduReader.Read's xs (skip = 0): its counter, its body, the
\* CRC it carries and the one computed
CaduOf(xs) ==
    [seq  |-> xs[7] * 65536 + xs[8] * 256 + xs[9],
     body |-> Slice(xs, 14, CaduLen - 2),
     want |-> xs[CaduLen - 1] * 256 + xs[CaduLen],
     got  |-> Sum(Slice(xs, MagicLen, CaduLen - 2))]

\* the frames copyFile hands to the writer: any counter, any CRC
CatInputs ==
    {Magic \o <<64, 9>> \o PutCounter(c) \o <<0, 0, 0, 0>>
           \o [i \in 1..(CaduLen - 16) |-> b] \o BE16(crc) :
        c \in {0, 7, CaduCounterMask}, b \in {0, 100, 200}, crc \in {0, 4660}}

\* the writer has written n0 frames and the reader has read them all
InitCacat ==
    /\ NoStuff /\ NoValidate
    /\ packets = <<>> /\ frames = <<>> /\ lost = [at |-> 0, k |-> 0]
    /\ files = <<>> /\ pos = 0 /\ reads = <<>> /\ rest = <<>>
    /\ size = 0 /\ written = 0 /\ out = <<>>
    /\ tasks = [t \in Tasks |-> "run"]
    /\ pool = NoPool /\ writers = <<>> /\ wire = <<>> /\ ring = NoRing /\ snap = NoSnap /\ mem = NoMem
    /\ \E n0 \in {0, CaduCounterMask - 1} :
          /\ cacat = [next |-> n0, file |-> <<>>]
          /\ counter = IF n0 = 0 THEN 0 ELSE n0 - 1
    /\ stage = "cacat"

\* copyFile writes one more frame through writer.Write
CacatWrite ==
    /\ stage = "cacat"
    /\ Len(cacat.file) < MaxCat
    /\ \E bs \in CatInputs :
          LET w == WriterWrite(bs, cacat.next)
          IN  cacat' = [next |-> w.next, file |-> Append(cacat.file, w.bs)]
    /\ UNCHANGED <<tasks, pool, writers, wire, ring, mem, snap, stage>>
    /\ UNCHANGED streamVars /\ UNCHANGED stuffVars /\ UNCHANGED validVars

\* vcduReader.Read on the next frame of the merged output
CacatRead ==
    /\ stage = "cacat"
    /\ pos < Len(cacat.file)
    /\ LET f == CaduOf(cacat.file[pos + 1])
           r == VcduRead(f, counter)
       IN  /\ counter' = r.counter
           /\ reads' = Append(reads, [prev |-> counter, curr |-> f.seq,
                                     crcok |-> f.got = f.want,
                                     want |-> f.want, got |-> f.got,
                                     n |-> Len(r.body), body |-> r.body,
                                     err |-> r.err])
    /\ pos' = pos + 1
    /\ UNCHANGED <<files, packets, frames, lost, rest, size, written, out, stage>>
    /\ UNCHANGED stuffVars /\ UNCHANGED taskVars /\ UNCHANGED validVars

NextCacat == CacatWrite \/ CacatRead

SpecCacat == InitCacat /\ [][NextCacat]_vars

-----------------------------------------------------------------------------
(* The UPI of a packet: decodeHRDLHeader (hrdl.go) and dumpErdle (report.go) *)

\* bytes.Trim(bs, "\x00"): the NUL bytes at both ends removed
TrimNul(bs) ==
    LET nz == {i \in 1..Len(bs) : bs[i] # 0}
    IN  IF nz = {} THEN <<>>
        ELSE SubSeq(bs, CHOOSE i \in nz : \A j \in nz : i <= j,
                        CHOOSE i \in nz : \A j \in nz : j <= i)

\* bs := make([]byte, n); rs.Read(bs) with the error ignored: what is left of
\* the packet, up to n bytes, and zeros behind
ReadSlot(tail, n) ==
    Slice(tail, 0, Min(n, Len(tail))) \o Zeros(n - Len(tail))

\* a UPI: one of the names the code sets, or the identifier stored in the slot
NamedUPI(name) == [name |-> name, id |-> <<>>]
StoredUPI(u) == [name |-> "", id |-> u]

\* h.Channel and h.Property: the first byte of the VMU header and the first
\* byte of the HRD common header
ChannelOf(buf) == buf[hrdlHeaderLen + 1]
PropertyOf(buf) == buf[hrdlHeaderLen + vmuHeaderLen + 1]

\* what follows the two headers
AfterHeaders(buf) == From(buf, hrdlHeaderLen + vmuHeaderLen + hrdHeaderLen)

\* h.UPI as decodeHRDLHeader sets it
HeaderUPI(buf) ==
    LET kind == PropertyOf(buf) \div 16
        tail == AfterHeaders(buf)
    IN  IF kind = 1
        THEN LET u == TrimNul(ReadSlot(tail, 32))
             IN  IF Len(u) > 0 THEN StoredUPI(u) ELSE NamedUPI("SCIENCE")
        ELSE IF kind = 2
        THEN LET u == TrimNul(From(ReadSlot(tail, 52), 20))
             IN  IF Len(u) > 0 THEN StoredUPI(u) ELSE NamedUPI("IMAGE")
        ELSE NamedUPI("UNKNOWN")

\* upi as dumpErdle prints it; io.ReadFull fails when fewer bytes are left
\* than the slot has
DumpUPI(buf) ==
    LET channel == ChannelOf(buf)
        tail    == AfterHeaders(buf)
    IN  IF channel = 3
        THEN IF Len(tail) >= 32 THEN StoredUPI(TrimNul(Slice(tail, 0, 32)))
             ELSE NamedUPI("SCIENCE")
        ELSE IF channel \in {1, 2}
        THEN IF Len(tail) >= 52 THEN StoredUPI(TrimNul(Slice(tail, 20, 52)))
             ELSE NamedUPI("IMAGE")
        ELSE StoredUPI(<<>>)

\* what follows the headers in the packets decoded: an empty slot, an
\* identifier at the start, one after 20 bytes, one behind a NUL, a packet cut
\* short, nothing
UpiTails ==
    {Zeros(52),
     <<83, 67>> \o Zeros(50),
     [i \in 1..20 |-> 7] \o <<73, 77>> \o Zeros(30),
     <<0, 83>> \o Zeros(50),
     <<83>>,
     <<>>}

UpiBuf(channel, property, tail) ==
    Word \o PutUint32LE(vmuHeaderLen + hrdHeaderLen + Len(tail))
         \o <<channel>> \o Zeros(vmuHeaderLen - 1)
         \o <<property>> \o Zeros(hrdHeaderLen - 1) \o tail

InitUpi ==
    /\ NoStream /\ NoValidate /\ NoTasks
    /\ \E channel \in 0..4, property \in {0, 16, 32, 48}, tail \in UpiTails :
          src = UpiBuf(channel, property, tail)
    /\ stuffed = <<>> /\ unstuffed = <<>>
    /\ stage = "input"

\* the packet is decoded by Decoder.Decode and printed by dumpErdle
DecodeUPI ==
    /\ stage = "input"
    /\ out' = <<[hdr |-> HeaderUPI(src), dump |-> DumpUPI(src)]>>
    /\ stage' = "decoded"
    /\ UNCHANGED <<files, packets, frames, lost, pos, counter, reads, rest, size, written>>
    /\ UNCHANGED stuffVars /\ UNCHANGED validVars /\ UNCHANGED taskVars

NextUpi == DecodeUPI

SpecUpi == InitUpi /\ [][NextUpi]_vars

\* the bytes of s without the NUL bytes at its end
RECURSIVE TrimRight(_)
TrimRight(s) ==
    IF s = <<>> \/ s[Len(s)] # 0 THEN s ELSE TrimRight(SubSeq(s, 1, Len(s) - 1))

\* C34: the slot is chosen by the channel: 32 bytes for channel 3, the last 32
\* of 52 bytes for channels 1 and 2, none otherwise; the UPI is the slot
\* without its trailing NUL bytes, or, that being empty, SCIENCE (channel 3),
\* IMAGE (channels 1 and 2), UNKNOWN (the others)
C34_UpiByChannel ==
    (stage = "decoded" /\ Len(AfterHeaders(src)) >= 52) =>
       LET channel == ChannelOf(src)
           tail    == AfterHeaders(src)
           slot    == IF channel = 3 THEN Slice(tail, 0, 32)
                      ELSE IF channel \in {1, 2} THEN Slice(tail, 20, 52)
                      ELSE <<>>
           upi     == IF TrimRight(slot) # <<>> THEN StoredUPI(TrimRight(slot))
                      ELSE IF channel = 3 THEN NamedUPI("SCIENCE")
                      ELSE IF channel \in {1, 2} THEN NamedUPI("IMAGE")
                      ELSE NamedUPI("UNKNOWN")
       IN  out[1].hdr = upi /\ out[1].dump = upi

-----------------------------------------------------------------------------
(* The goroutines of the relay (part_016): who ends when the input ends *)

\* the deferred c.Close() of reassemble's loop makes the Read of
\* io.CopyBuffer(rg, c, ...) fail: the goroutine that feeds the ring returns
FeederExit ==
    /\ stage = "eof" /\ tasks["feed"] = "run"
    /\ tasks' = [tasks EXCEPT !["feed"] = "done"]
    /\ UNCHANGED <<pool, writers, wire, ring, cacat, mem, snap>>
    /\ UNCHANGED streamVars /\ UNCHANGED stuffVars /\ UNCHANGED validVars
    /\ UNCHANGED stage

\* validate's loop ranges over queue, which reassemble's loop closes when it
\* returns: once the queue is drained the loop ends and the deferred close(q)
\* runs
ValidateExit ==
    /\ stage = "eof" /\ queue = <<>> /\ tasks["validate"] = "run"
    /\ tasks' = [tasks EXCEPT !["validate"] = "done"]
    /\ UNCHANGED <<pool, writers, wire, ring, cacat, mem, snap>>
    /\ UNCHANGED streamVars /\ UNCHANGED stuffVars /\ UNCHANGED validVars
    /\ UNCHANGED stage

\* runRelay ranges over validate's channel: closed and drained, the loop ends
ConsumeExit ==
    /\ tasks["validate"] = "done" /\ q = <<>> /\ tasks["consume"] = "run"
    /\ tasks' = [tasks EXCEPT !["consume"] = "done"]
    /\ UNCHANGED <<pool, writers, wire, ring, cacat, mem, snap>>
    /\ UNCHANGED streamVars /\ UNCHANGED stuffVars /\ UNCHANGED validVars
    /\ UNCHANGED stage

\* the ticker goroutine of validate logs the counters and clears them; like
\* the one of reassemble it ranges over time.Tick, a channel nobody closes
ValidateTick ==
    /\ stage \in {"read", "eof"} /\ tasks["vtick"] = "run"
    /\ stats.count > 0 \/ stats.dropped > 0
    /\ stats' = NoStats
    /\ UNCHANGED <<queue, keep, q, relay, stage>>
    /\ UNCHANGED streamVars /\ UNCHANGED stuffVars /\ UNCHANGED taskVars

InitCancel == InitSkip

NextCancel ==
    \/ ReassembleSkipStep \/ AssembleTick \/ ValidateStep \/ ValidateTick
    \/ Receive \/ FeederExit \/ ValidateExit \/ ConsumeExit

\* the goroutines downstream of reassemble's loop get to run whenever they
\* can take a step (the Go scheduler starves no runnable goroutine)
SpecCancel ==
    /\ InitCancel /\ [][NextCancel]_vars
    /\ WF_vars(ValidateStep) /\ WF_vars(Receive)
    /\ WF_vars(FeederExit) /\ WF_vars(ValidateExit) /\ WF_vars(ConsumeExit)

\* C23: once the upstream reader has returned EOF and reassemble's loop has
\* closed its queue, the validator drains it and closes its channel, the
\* consumer loop ends, and every goroutine started by reassemble and validate,
\* the ring feeder and the two statistics tickers included, has exited
C23_Cancellation ==
    (stage = "eof") ~> (\A t \in Tasks : tasks[t] = "done")

-----------------------------------------------------------------------------
(* The pool of outbound connections (cmd/cadu2hrdl/rw.go) *)

hdkVersion == 0
vmuVersion == 2


\* the instances client accepts: -1 selects writeHRDL, the others writeHadock
Instances == {-1, 0, 1, 2, 255}

\* client(a, i), the dial succeeding: the conn it returns
client(i) ==
    [open |-> TRUE, next |-> 0,
     preamble |-> IF i = -1 THEN 0 ELSE hdkVersion * 4096 + vmuVersion * 256 + i,
     hadock |-> i # -1]

\* writeHRDL(c, bs): the bytes copied to the connection
writeHRDL(c, bs) == Word \o PutUint32LE(Len(bs) - 4) \o bs

\* writeHadock(c, bs): the bytes copied to the connection
writeHadock(c, bs) ==
    Word \o BE16(c.preamble) \o BE16(c.next) \o BE32(Len(bs)) \o bs \o <<255, 255>>

\* NewPool(a, n, i): the error and the pool
NewPool(n, i) ==
    IF n <= 1 \/ i \notin Instances
    THEN [err |-> TRUE, pool |-> NoPool]
    ELSE [err |-> FALSE,
          pool |-> [n |-> n, instance |-> i,
                    queue |-> [j \in 1..n |-> j],
                    conns |-> [j \in 1..n |-> client(i)]]]

\* the k-th packet validate forwards: a body byte and its sum
Payload(k) == <<k>> \o PutUint32LE(k)

\* runRelay has built the pool, or has returned NewPool's error (pool.n then
\* keeps the number of connections that was asked for)
InitPool ==
    /\ NoStream /\ NoStuff /\ NoValidate
    /\ tasks = [t \in Tasks |-> "run"] /\ ring = NoRing /\ snap = NoSnap /\ cacat = NoCacat /\ mem = NoMem
    /\ \E n \in 0..MaxConns, i \in {-1, 255} :
          /\ pool = [NewPool(n, i).pool EXCEPT !.n = n]
          /\ stage = IF NewPool(n, i).err THEN "failed" ELSE "relay"
    /\ writers = [k \in 1..MaxWrites |-> [pc |-> "wait", c |-> 0]]
    /\ wire = <<>>

\* runRelay's loop receives the k-th packet and starts a goroutine for it
Go(k) ==
    /\ stage = "relay"
    /\ writers[k].pc = "wait"
    /\ \A j \in 1..(k - 1) : writers[j].pc # "wait"
    /\ writers' = [writers EXCEPT ![k].pc = "pop"]
    /\ UNCHANGED <<tasks, pool, wire, ring, cacat, mem, snap, stage>>
    /\ UNCHANGED streamVars /\ UNCHANGED stuffVars /\ UNCHANGED validVars

\* mutant: pop hands out the connection at the head of the queue and leaves
\* it there
PopPeek(k) ==
    /\ stage = "relay"
    /\ writers[k].pc = "pop"
    /\ pool.queue # <<>>
    /\ writers' = [writers EXCEPT ![k] = [pc |-> "hold", c |-> Head(pool.queue)]]
    /\ UNCHANGED <<tasks, pool, wire, ring, cacat, mem, snap, stage>>
    /\ UNCHANGED streamVars /\ UNCHANGED stuffVars /\ UNCHANGED validVars

\* p.pop() at the start of pool.Write: a connection received from the queue,
\* or, the queue being empty, a new one from client, whose dial may fail
Pop(k) ==
    /\ stage = "relay"
    /\ writers[k].pc = "pop"
    /\ IF pool.queue # <<>>
       THEN /\ writers' = [writers EXCEPT ![k] = [pc |-> "hold", c |-> Head(pool.queue)]]
            /\ pool' = [pool EXCEPT !.queue = Tail(@)]
       ELSE \E ok \in BOOLEAN :
               IF ok
               THEN /\ pool' = [pool EXCEPT !.conns = Append(@, client(pool.instance))]
                    /\ writers' = [writers EXCEPT
                                      ![k] = [pc |-> "hold", c |-> Len(pool.conns) + 1]]
               ELSE /\ pool' = pool
                    /\ writers' = [writers EXCEPT ![k].pc = "done"]
    /\ UNCHANGED <<tasks, wire, ring, cacat, mem, snap, stage>>
    /\ UNCHANGED streamVars /\ UNCHANGED stuffVars /\ UNCHANGED validVars

\* the rest of pool.Write: c.Write(bs), which counts the packet whether or not
\* the copy succeeds, then p.push(c), or c.Close() after an error; push closes
\* the connection when the queue is full
WriteStep(k) ==
    /\ stage = "relay"
    /\ writers[k].pc = "hold"
    /\ LET id == writers[k].c
           c  == pool.conns[id]
           bs == IF c.hadock THEN writeHadock(c, Payload(k)) ELSE writeHRDL(c, Payload(k))
           c1 == [c EXCEPT !.next = (@ + 1) % 65536]
       IN  \E ok \in BOOLEAN :
              IF ok
              THEN /\ wire' = Append(wire, [c |-> id, pkt |-> k, bytes |-> bs])
                   /\ pool' = IF Len(pool.queue) < pool.n
                              THEN [pool EXCEPT !.conns[id] = c1,
                                                !.queue = Append(@, id)]
                              ELSE [pool EXCEPT !.conns[id] = [c1 EXCEPT !.open = FALSE]]
              ELSE /\ wire' = wire
                   /\ pool' = [pool EXCEPT !.conns[id] = [c1 EXCEPT !.open = FALSE]]
    /\ writers' = [writers EXCEPT ![k] = [pc |-> "done", c |-> 0]]
    /\ UNCHANGED <<tasks, ring, cacat, mem, snap, stage>>
    /\ UNCHANGED streamVars /\ UNCHANGED stuffVars /\ UNCHANGED validVars

NextPool == \E k \in 1..MaxWrites : Go(k) \/ Pop(k) \/ WriteStep(k)

SpecPool == InitPool /\ [][NextPool]_vars

\* the open connections, the goroutines holding a connection
Open == {id \in 1..Len(pool.conns) : pool.conns[id].open}
Holders(id) == {k \in 1..Len(writers) : writers[k].pc = "hold" /\ writers[k].c = id}
Idle(id) == {j \in 1..Len(pool.queue) : pool.queue[j] = id}

\* C24: every open connection is either once in the pool's queue or held by
\* exactly one pool.Write, never both and never by two; a closed connection is
\* neither
C24_ExclusiveOwnership ==
    \A id \in 1..Len(pool.conns) :
       IF id \in Open
       THEN Cardinality(Holders(id)) + Cardinality(Idle(id)) = 1
       ELSE Holders(id) = {} /\ Idle(id) = {}

\* two goroutines hold a connection each while a third has written and given
\* its connection back
C24_Witness ==
    /\ \E j, k \in 1..Len(writers) :
          /\ j # k /\ writers[j].pc = "hold" /\ writers[k].pc = "hold"
    /\ wire # <<>> /\ pool.queue # <<>>

\* C25: the pool never has more than n connections open, in its queue or in
\* the hands of a pool.Write, however many pool.Write calls run at once
C25_FixedSize == Cardinality(Open) <= pool.n

\* C26: a pool of one connection can be built, and through it the packets go
\* out in the order in which validate forwarded them
C26_OrderedWithOne ==
    pool.n = 1 =>
       /\ stage = "relay"
       /\ \A i, j \in 1..Len(wire) : i < j => wire[i].pkt < wire[j].pkt

\* C32: a pool.Write that fails closes its connection and leaves it out of
\* the queue, one that succeeds puts it back in the queue, still open; pop
\* hands out open connections only, a new one when the queue is empty, and
\* nothing is written on a closed connection
C32_ErrorPolicy ==
    [][\A k \in 1..Len(writers) :
          /\ (writers[k].pc = "hold" /\ writers'[k].pc = "done") =>
                LET id == writers[k].c
                IN  /\ pool.conns[id].open
                    /\ IF wire' # wire
                       THEN /\ pool'.conns[id].open
                            /\ \E j \in 1..Len(pool'.queue) : pool'.queue[j] = id
                       ELSE /\ ~pool'.conns[id].open
                            /\ \A j \in 1..Len(pool'.queue) : pool'.queue[j] # id
          /\ (writers[k].pc = "pop" /\ writers'[k].pc = "hold") =>
                /\ pool'.conns[writers'[k].c].open
                /\ pool.queue = <<>> => writers'[k].c = Len(pool.conns) + 1
      ]_vars

\* the sequence number of the i-th outbound Hadock frame
HadockSeq(i) == wire[i].bytes[7] * 256 + wire[i].bytes[8]

\* C27: with a Hadock instance every outbound frame starts with the sync word
\* and the preamble (hdkVersion << 12) | (vmuVersion << 8) | instance, and the
\* sequence number grows by one (mod 2^16) from each frame written to the next
C27_HadockSequence ==
    pool.instance # -1 =>
       \A i \in 1..Len(wire) :
          /\ Slice(wire[i].bytes, 0, WordLen) = Word
          /\ Slice(wire[i].bytes, 4, 6) =
                BE16(hdkVersion * 4096 + vmuVersion * 256 + pool.instance)
          /\ i > 1 => HadockSeq(i) = (HadockSeq(i - 1) + 1) % 65536

-----------------------------------------------------------------------------
(* The ring of part_000: ring.Write, ring.Read and the goroutine syncboth *)

\* copy(dst, src) on the part buf[at:] of the buffer: the buffer afterwards
CopyIn(buf, at, bs) ==
    [i \in 1..Len(buf) |->
        IF i > at /\ i - at <= Len(bs) THEN bs[i - at] ELSE buf[i]]

\* the two copies of ring.Write: the buffer and r.wix afterwards
RingPut(buf, wix, bs) ==
    LET n == Min(Len(buf) - wix, Len(bs))
    IN  IF n < Len(bs)
        THEN [buffer |-> CopyIn(CopyIn(buf, wix, bs), 0, From(bs, n)),
              wix |-> Min(Len(buf), Len(bs) - n)]
        ELSE [buffer |-> CopyIn(buf, wix, bs), wix |-> wix + n]

\* the two copies of ring.Read into a slice of k bytes: what is copied last,
\* and r.rix afterwards
RingGet(buf, rix, k) ==
    LET n == Min(Len(buf) - rix, k)
    IN  IF n < k
        THEN [got |-> Slice(buf, 0, Min(Len(buf), k - n)),
              rix |-> Min(Len(buf), k - n)]
        ELSE [got |-> Slice(buf, rix, rix + n), rix |-> rix + n]

\* Ring(s, rs) has been called
InitRing ==
    /\ NoStream /\ NoStuff /\ NoValidate
    /\ tasks = [t \in Tasks |-> "run"]
    /\ pool = NoPool /\ writers = <<>> /\ wire = <<>>
    /\ ring = [NoRing EXCEPT !.buffer = Zeros(RingCap)]
    /\ cacat = NoCacat /\ mem = NoMem /\ snap = NoSnap
    /\ stage = "ring"

\* ring.Write(bs) up to its send on wchan: the bytes are copied in, over
\* whatever the buffer holds
WriteCopy ==
    /\ stage = "ring"
    /\ ring.w.pc = "idle" /\ ring.w.done < MaxRingWrites
    /\ \E k \in 1..MaxChunk :
          LET bs == [i \in 1..k |-> 10 * (ring.w.done + 1) + i]
              p  == RingPut(ring.buffer, ring.wix, bs)
          IN  ring' = [ring EXCEPT !.buffer = p.buffer, !.wix = p.wix,
                                   !.w = [@ EXCEPT !.pc = "send", !.bs = bs]]
    /\ UNCHANGED <<tasks, pool, writers, wire, cacat, mem, snap, stage>>
    /\ UNCHANGED streamVars /\ UNCHANGED stuffVars /\ UNCHANGED validVars

\* mutant: syncboth takes a write only while the unread bytes fit the buffer
SyncWriteRoom ==
    /\ stage = "ring"
    /\ ring.sync.pc = "select" /\ ring.w.pc = "send"
    /\ ring.available + Len(ring.w.bs) <= Len(ring.buffer)
    /\ ring' = [ring EXCEPT !.available = @ + Len(ring.w.bs),
                            !.w = [@ EXCEPT !.pc = "idle", !.done = @ + 1]]
    /\ UNCHANGED <<tasks, pool, writers, wire, cacat, mem, snap, stage>>
    /\ UNCHANGED streamVars /\ UNCHANGED stuffVars /\ UNCHANGED validVars

\* syncboth's select receives on wchan: the send of ring.Write completes and
\* Write returns len(bs), nil
SyncWrite ==
    /\ stage = "ring"
    /\ ring.sync.pc = "select" /\ ring.w.pc = "send"
    /\ ring' = [ring EXCEPT !.available = @ + Len(ring.w.bs),
                            !.w = [@ EXCEPT !.pc = "idle", !.done = @ + 1]]
    /\ UNCHANGED <<tasks, pool, writers, wire, cacat, mem, snap, stage>>
    /\ UNCHANGED streamVars /\ UNCHANGED stuffVars /\ UNCHANGED validVars

\* ring.Read(bs) reaches its send on rchan
ReadAsk ==
    /\ stage = "ring"
    /\ ring.r.pc = "idle"
    /\ \E k \in 1..MaxChunk : ring' = [ring EXCEPT !.r = [@ EXCEPT !.pc = "ask", !.n = k]]
    /\ UNCHANGED <<tasks, pool, writers, wire, cacat, mem, snap, stage>>
    /\ UNCHANGED streamVars /\ UNCHANGED stuffVars /\ UNCHANGED validVars

\* syncboth's select receives the request on rchan: with enough bytes
\* available it goes on to answer, otherwise it ranges over wchan
SyncRead ==
    /\ stage = "ring"
    /\ ring.sync.pc = "select" /\ ring.r.pc = "ask"
    /\ ring' = IF ring.r.n < ring.available
               THEN [ring EXCEPT !.available = @ - ring.r.n,
                                 !.sync = [pc |-> "reply", n |-> ring.r.n],
                                 !.r = [@ EXCEPT !.pc = "wait"]]
               ELSE [ring EXCEPT !.sync = [pc |-> "range", n |-> ring.r.n],
                                 !.r = [@ EXCEPT !.pc = "wait"]]
    /\ UNCHANGED <<tasks, pool, writers, wire, cacat, mem, snap, stage>>
    /\ UNCHANGED streamVars /\ UNCHANGED stuffVars /\ UNCHANGED validVars

\* syncboth, inside `for nn := range r.wchan`, receives a write
SyncRange ==
    /\ stage = "ring"
    /\ ring.sync.pc = "range" /\ ring.w.pc = "send"
    /\ LET a == ring.available + Len(ring.w.bs)
       IN  ring' = IF ring.sync.n < a
                   THEN [ring EXCEPT !.available = a - ring.sync.n,
                                     !.sync = [@ EXCEPT !.pc = "reply"],
                                     !.w = [@ EXCEPT !.pc = "idle", !.done = @ + 1]]
                   ELSE [ring EXCEPT !.available = a,
                                     !.w = [@ EXCEPT !.pc = "idle", !.done = @ + 1]]
    /\ UNCHANGED <<tasks, pool, writers, wire, cacat, mem, snap, stage>>
    /\ UNCHANGED streamVars /\ UNCHANGED stuffVars /\ UNCHANGED validVars

\* syncboth answers on rchan; ring.Read receives, copies and returns
SyncReply ==
    /\ stage = "ring"
    /\ ring.sync.pc = "reply" /\ ring.r.pc = "wait"
    /\ LET g == RingGet(ring.buffer, ring.rix, ring.r.n)
       IN  ring' = [ring EXCEPT !.rix = g.rix,
                                !.sync = [pc |-> "select", n |-> 0],
                                !.r = [pc |-> "idle", n |-> 0, got |-> g.got,
                                       done |-> Min(@.done + 1, MaxRingWrites)]]
    /\ UNCHANGED <<tasks, pool, writers, wire, cacat, mem, snap, stage>>
    /\ UNCHANGED streamVars /\ UNCHANGED stuffVars /\ UNCHANGED validVars

NextRing ==
    WriteCopy \/ SyncWrite \/ ReadAsk \/ SyncRead \/ SyncRange \/ SyncReply

\* syncboth and the goroutines blocked on its channels get to run; no
\* fairness for ReadAsk: ring.Read need never be called
SpecRing ==
    /\ InitRing /\ [][NextRing]_vars
    /\ WF_vars(SyncWrite) /\ WF_vars(SyncRead) /\ WF_vars(SyncRange)
    /\ WF_vars(SyncReply)

\* C30: every call of ring.Write completes, whether or not ring.Read is ever
\* called; what it writes is in the buffer up to r.wix afterwards, over the
\* unread bytes when the reader is more than the buffer behind
C30_WriteNeverBlocks ==
    /\ [](ring.w.pc = "send" =>
            LET m == Min(Len(ring.w.bs), ring.wix)
            IN  Slice(ring.buffer, ring.wix - m, ring.wix)
                   = From(ring.w.bs, Len(ring.w.bs) - m))
    /\ (ring.w.pc = "send") ~> (ring.w.pc = "idle")

\* ring.Read has never been called, more bytes are unread than the buffer
\* holds, and every ring.Write has returned
C30_Witness ==
    /\ stage = "ring"
    /\ ring.r.done = 0 /\ ring.r.pc = "idle"
    /\ ring.available > Len(ring.buffer)
    /\ ring.w.pc = "idle" /\ ring.w.done >= 2

\* C39: the count of unread bytes kept by syncboth is never negative, and a
\* ring.Read(bs) that is pending while at least len(bs) unread bytes have been
\* written returns, whether or not anything more is written
C39_ReadProgress ==
    /\ [](ring.available >= 0)
    /\ (ring.r.pc # "idle" /\ ring.sync.pc # "reply" /\ ring.available >= ring.r.n)
          ~> (ring.r.pc = "idle")

-----------------------------------------------------------------------------
(* Slices and their backing arrays: nextPacket, reassemble and validate of
   cmd/cadu2hrdl/main.go (first revision) *)

\* a slice: the array it points into (0: nil), its first cell, its length
NilSlice == [a |-> 0, off |-> 0, len |-> 0]

\* cap(s) and the bytes of s
CapOf(arrays, s) == IF s.a = 0 THEN 0 ELSE Len(arrays[s.a]) - s.off
BytesOf(arrays, s) ==
    IF s.a = 0 THEN <<>> ELSE Slice(arrays[s.a], s.off, s.off + s.len)

\* s[lo:] and s[:hi]
SliceFrom(s, lo) == [s EXCEPT !.off = @ + lo, !.len = @ - lo]
SliceTo(s, hi) == [s EXCEPT !.len = hi]

\* the cells of the arrays a slice covers
Cells(s) == {<<s.a, i>> : i \in (s.off + 1)..(s.off + s.len)}

\* append(s, bs...): within the capacity the bytes are written behind s in its
\* array; otherwise a new array is allocated, of twice the capacity or of the
\* length needed if that is more (the allocator may round this up)
GoAppend(arrays, s, bs) ==
    LET need == s.len + Len(bs)
        cap  == CapOf(arrays, s)
        grow == IF need > 2 * cap THEN need ELSE 2 * cap
        old  == BytesOf(arrays, s) \o bs
    IN  IF bs = <<>> THEN [arrays |-> arrays, s |-> s, wrote |-> {}]
        ELSE IF need <= cap
        THEN [arrays |-> [arrays EXCEPT ![s.a] = CopyIn(@, s.off + s.len, bs)],
              s      |-> [s EXCEPT !.len = need],
              wrote  |-> {<<s.a, i>> : i \in (s.off + s.len + 1)..(s.off + need)}]
        ELSE [arrays |-> Append(arrays, [i \in 1..grow |->
                                            IF i <= need THEN old[i] ELSE 0]),
              s      |-> [a |-> Len(arrays) + 1, off |-> 0, len |-> need],
              wrote  |-> {}]

\* the result of nextPacket: the slices buffer and rest, the error, the
\* reader afterwards, the arrays and the cells of existing arrays written
ORes(err, p, ctr, arrays, wrote, buffer, rs) ==
    [err |-> err, pos |-> p, counter |-> ctr, arrays |-> arrays, wrote |-> wrote,
     buffer |-> buffer, rest |-> rs]

\* first loop of nextPacket
RECURSIVE OwnSync(_, _, _, _, _, _)
OwnSync(p, ctr, arrays, wrote, buffer, offset) ==
    IF p >= Len(frames) THEN ORes(EOF, p, ctr, arrays, wrote, NilSlice, NilSlice)
    ELSE LET r == VcduRead(frames[p + 1], ctr)
             a == GoAppend(arrays, buffer, r.body)
             b == BytesOf(a.arrays, a.s)
             w == wrote \cup a.wrote
             ix == Index(From(b, offset), Word)
         IN  IF r.err # NoErr
             THEN IF IsMissingCadu(r.err)
                  THEN OwnSync(p + 1, r.counter, arrays, wrote, buffer, offset)
                  ELSE ORes(r.err, p + 1, r.counter, arrays, wrote, NilSlice, NilSlice)
             ELSE IF Slice(b, 0, WordLen) = Word
             THEN ORes(NoErr, p + 1, r.counter, a.arrays, w, a.s, NilSlice)
             ELSE IF Len(b) - offset > WordLen /\ ix >= 0
             THEN ORes(NoErr, p + 1, r.counter, a.arrays, w,
                       SliceFrom(a.s, offset + ix), NilSlice)
             ELSE OwnSync(p + 1, r.counter, a.arrays, w, a.s,
                          offset + Len(r.body) - WordLen)

\* second loop of nextPacket
RECURSIVE OwnFill(_, _, _, _, _, _)
OwnFill(p, ctr, arrays, wrote, buffer, offset) ==
    IF p >= Len(frames) THEN ORes(EOF, p, ctr, arrays, wrote, NilSlice, NilSlice)
    ELSE LET r == VcduRead(frames[p + 1], ctr)
             a == GoAppend(arrays, buffer, r.body)
             b == BytesOf(a.arrays, a.s)
             w == wrote \cup a.wrote
             ix == Index(From(b, offset), Word)
         IN  IF r.err # NoErr
             THEN ORes(IF IsMissingCadu(r.err) THEN ErrSkip ELSE r.err,
                       p + 1, r.counter, arrays, wrote, NilSlice, NilSlice)
             ELSE IF ix >= 0
             THEN ORes(NoErr, p + 1, r.counter, a.arrays, w,
                       SliceTo(a.s, offset + ix), SliceFrom(a.s, offset + ix))
             ELSE OwnFill(p + 1, r.counter, a.arrays, w, a.s,
                          offset + Len(r.body) - WordLen)

\* nextPacket(r, rest) of main.go on slices
nextPacketOwn(p, ctr, arrays, rs) ==
    LET s == OwnSync(p, ctr, arrays, {}, rs, 0)
    IN  IF s.err # NoErr THEN s
        ELSE OwnFill(s.pos, s.counter, s.arrays, s.wrote, s.buffer, WordLen)

\* bytes.Replace(bs, Stuff, Word, -1)
RECURSIVE ReplaceStuff(_)
ReplaceStuff(bs) ==
    IF Len(bs) < Len(Stuff) THEN bs
    ELSE IF Slice(bs, 0, Len(Stuff)) = Stuff
         THEN Word \o ReplaceStuff(From(bs, Len(Stuff)))
         ELSE <<bs[1]>> \o ReplaceStuff(Tail(bs))

\* a stream without loss; nothing allocated yet
InitOwn ==
    /\ InitStream /\ lost.k = 0
    /\ NoStuff /\ NoValidate
    /\ tasks = [t \in Tasks |-> "run"]
    /\ pool = NoPool /\ writers = <<>> /\ wire = <<>>
    /\ ring = NoRing /\ snap = NoSnap /\ cacat = NoCacat /\ mem = NoMem
    /\ stage = "own"

\* what rest is in this specification: a slice
RestSlice == IF rest = <<>> THEN NilSlice ELSE rest

\* one turn of the loop of reassemble: the slice buffer is sent on the channel
\* if it has room
ReassembleOwn ==
    /\ stage = "own"
    /\ LET r    == nextPacketOwn(pos, counter, mem.arrays, RestSlice)
           sent == r.err = NoErr /\ r.buffer.len # 0 /\ Len(queue) < QueueCap
           c    == IF r.err = ErrSkip
                   THEN [relay EXCEPT !.skipped = @ + 1]
                   ELSE IF r.err # NoErr \/ r.buffer.len = 0 THEN relay
                   ELSE IF sent THEN [relay EXCEPT !.count = @ + 1]
                   ELSE [relay EXCEPT !.dropped = @ + 1, !.size = @ + r.buffer.len]
       IN  /\ pos' = r.pos
           /\ counter' = r.counter
           /\ rest' = r.rest
           /\ out' = Append(out, [buf |-> BytesOf(r.arrays, r.buffer), err |-> r.err])
           /\ queue' = IF sent THEN Append(queue, r.buffer) ELSE queue
           /\ mem' = [arrays |-> r.arrays, wrote |-> r.wrote, by |-> "assemble",
                      sent |-> sent]
           /\ stage' = IF r.err \in {NoErr, ErrSkip} THEN "own" ELSE "eof"
           /\ \E tick \in BOOLEAN :
                 relay' = IF tick /\ r.err \in {NoErr, ErrSkip} THEN NoRelay ELSE c
    /\ UNCHANGED <<files, packets, frames, lost, reads, size, written>>
    /\ UNCHANGED stuffVars /\ UNCHANGED <<keep, q, stats>>
    /\ UNCHANGED <<tasks, pool, writers, wire, ring, cacat, snap>>

\* one turn of the loop of validate on the slice received: the two appends
\* are made before the send is tried
ValidateOwn ==
    /\ stage \in {"own", "eof"}
    /\ queue # <<>>
    /\ queue' = Tail(queue)
    /\ LET bs0 == Head(queue)
           b0  == BytesOf(mem.arrays, bs0)
           z   == Uint32LE(From(b0, 4)) + 12
           bs  == IF z < bs0.len THEN SliceTo(bs0, z) ELSE bs0
           b   == BytesOf(mem.arrays, bs)
           bad == SumBytes(Slice(b, 8, z - 4)) # Uint32LE(From(b, z - 4))
           a1  == GoAppend(mem.arrays, SliceFrom(bs, 8), ReplaceStuff(From(b, 8)))
           a2  == GoAppend(a1.arrays, a1.s, From(b, Len(b) - 4))
           s1  == [stats EXCEPT !.size = @ + bs0.len]
           s2  == IF keep /\ bad THEN [s1 EXCEPT !.errSum = @ + 1] ELSE s1
           s3  == IF Len(q) < QueueCap THEN [s2 EXCEPT !.count = @ + 1]
                  ELSE [s2 EXCEPT !.dropped = @ + 1]
       IN  IF z > bs0.len
           THEN /\ mem' = [mem EXCEPT !.wrote = {}, !.by = "validate", !.sent = FALSE]
                /\ q' = q
                /\ \E tick \in BOOLEAN :
                      stats' = IF tick /\ stats.count # 0 THEN NoStats
                               ELSE [s1 EXCEPT !.errLength = @ + 1]
           ELSE /\ mem' = [arrays |-> a2.arrays, wrote |-> a1.wrote \cup a2.wrote,
                           by |-> "validate", sent |-> Len(q) < QueueCap]
                /\ q' = IF Len(q) < QueueCap THEN Append(q, a2.s) ELSE q
                /\ \E tick \in BOOLEAN :
                      stats' = IF tick /\ s3.count # 0 THEN NoStats ELSE s3
    /\ UNCHANGED <<keep, relay, stage>>
    /\ UNCHANGED streamVars /\ UNCHANGED stuffVars
    /\ UNCHANGED <<tasks, pool, writers, wire, ring, cacat, snap>>

\* the consumer receives from validate's channel
ReceiveOwn ==
    /\ stage \in {"own", "eof"}
    /\ q # <<>>
    /\ q' = Tail(q)
    /\ UNCHANGED <<queue, keep, stats, relay, stage>>
    /\ UNCHANGED streamVars /\ UNCHANGED stuffVars /\ UNCHANGED taskVars

NextOwn == ReassembleOwn \/ ValidateOwn \/ ReceiveOwn

SpecOwn == InitOwn /\ [][NextOwn]_vars

\* the slices that were on the queue before the last turn of reassemble
QueuedBefore ==
    IF mem.sent THEN {queue[i] : i \in 1..(Len(queue) - 1)}
    ELSE {queue[i] : i \in 1..Len(queue)}

\* C37: reassemble writes no cell of a buffer it has put on the queue, and
\* validate writes no cell of the carry-over rest of reassemble
C37_BufferOwnership ==
    /\ mem.by = "assemble" =>
          \A s \in QueuedBefore : mem.wrote \cap Cells(s) = {}
    /\ mem.by = "validate" => mem.wrote \cap Cells(RestSlice) = {}

-----------------------------------------------------------------------------
(* The counters of validate and the goroutine that prints and clears them
   (cmd/cadu2hrdl/main.go, last revision, and part_016) *)

\* packets validate receives in a run of the model
MaxCounted == 2

\* the counters in the order the ticker loads them and in the order it
\* stores zero in them
LoadOrder == <<"count", "dropped", "size", "errLength", "errSum">>
StoreOrder == <<"count", "dropped", "errLength", "errSum", "size">>

\* what validate can receive: a buffer of len bytes, its LENGTH or checksum
\* wrong or neither, and whether the channel q has room
CountedInputs ==
    [len : {2}, bad : {"none", "length", "sum"}, room : BOOLEAN]

\* the two revisions of the ticker: main.go clears the counters at every
\* tick, part_016 only after it has printed them
InitSnap ==
    /\ NoStream /\ NoStuff
    /\ queue = <<>> /\ q = <<>> /\ keep \in BOOLEAN
    /\ stats = NoStats /\ relay = NoRelay
    /\ tasks = [t \in Tasks |-> "run"]
    /\ pool = NoPool /\ writers = <<>> /\ wire = <<>>
    /\ ring = NoRing /\ cacat = NoCacat /\ mem = NoMem
    /\ \E rev \in {"main", "part_016"} :
          snap = [NoSnap EXCEPT !.rev = rev, !.load = NoStats,
                                !.shown = NoStats, !.made = NoStats]
    /\ stage = "snap"

\* validate receives a buffer and adds its length to size
CountSize ==
    /\ stage = "snap" /\ snap.w = "recv" /\ snap.n < MaxCounted
    /\ \E p \in CountedInputs :
          /\ snap' = [snap EXCEPT !.w = "check", !.pkt = p, !.n = @ + 1,
                                  !.made["size"] = @ + p.len]
          /\ stats' = [stats EXCEPT !.size = @ + p.len]
    /\ UNCHANGED <<queue, keep, q, relay, stage>>
    /\ UNCHANGED streamVars /\ UNCHANGED stuffVars
    /\ UNCHANGED <<tasks, pool, writers, wire, ring, cacat, mem>>

\* the switch on the length and the checksum
CountCheck ==
    /\ stage = "snap" /\ snap.w = "check"
    /\ LET c == IF snap.pkt.bad = "length" THEN "errLength"
                ELSE IF keep /\ snap.pkt.bad = "sum" THEN "errSum" ELSE "none"
           w == IF snap.pkt.bad = "length" THEN "recv" ELSE "send"
       IN  IF c = "none"
           THEN snap' = [snap EXCEPT !.w = w] /\ stats' = stats
           ELSE /\ snap' = [snap EXCEPT !.w = w, !.made[c] = @ + 1]
                /\ stats' = [stats EXCEPT ![c] = @ + 1]
    /\ UNCHANGED <<queue, keep, q, relay, stage>>
    /\ UNCHANGED streamVars /\ UNCHANGED stuffVars
    /\ UNCHANGED <<tasks, pool, writers, wire, ring, cacat, mem>>

\* the select that sends on q
CountSend ==
    /\ stage = "snap" /\ snap.w = "send"
    /\ LET c == IF snap.pkt.room THEN "count" ELSE "dropped"
       IN  /\ snap' = [snap EXCEPT !.w = "recv", !.made[c] = @ + 1]
           /\ stats' = [stats EXCEPT ![c] = @ + 1]
    /\ UNCHANGED <<queue, keep, q, relay, stage>>
    /\ UNCHANGED streamVars /\ UNCHANGED stuffVars
    /\ UNCHANGED <<tasks, pool, writers, wire, ring, cacat, mem>>

\* a tick: the ticker reads the counters for its condition
SnapTick ==
    /\ stage = "snap" /\ snap.t = "idle"
    /\ LET show == IF snap.rev = "main" THEN stats.count > 0
                   ELSE stats.count > 0 \/ stats.dropped > 0
       IN  snap' = [snap EXCEPT !.t = IF show THEN "load"
                                      ELSE IF snap.rev = "main" THEN "store"
                                      ELSE "idle",
                                !.i = 1]
    /\ UNCHANGED validVars
    /\ UNCHANGED stage
    /\ UNCHANGED streamVars /\ UNCHANGED stuffVars
    /\ UNCHANGED <<tasks, pool, writers, wire, ring, cacat, mem>>

\* one atomic.LoadInt64 of the arguments of Printf; after the last the line
\* is printed: shown is the ghost sum of the values printed
SnapLoad ==
    /\ stage = "snap" /\ snap.t = "load"
    /\ LET c  == LoadOrder[snap.i]
           ld == [snap.load EXCEPT ![c] = stats[c]]
       IN  IF snap.i < Len(LoadOrder)
           THEN snap' = [snap EXCEPT !.load = ld, !.i = @ + 1]
           ELSE snap' = [snap EXCEPT !.load = ld, !.i = 1, !.t = "store",
                            !.shown = [k \in DOMAIN NoStats |-> @[k] + ld[k]]]
    /\ UNCHANGED validVars
    /\ UNCHANGED stage
    /\ UNCHANGED streamVars /\ UNCHANGED stuffVars
    /\ UNCHANGED <<tasks, pool, writers, wire, ring, cacat, mem>>

\* one atomic.StoreInt64(&c, 0)
SnapStore ==
    /\ stage = "snap" /\ snap.t = "store"
    /\ stats' = [stats EXCEPT ![StoreOrder[snap.i]] = 0]
    /\ snap' = IF snap.i < Len(StoreOrder) THEN [snap EXCEPT !.i = @ + 1]
               ELSE [snap EXCEPT !.i = 0, !.t = "idle"]
    /\ UNCHANGED <<queue, keep, q, relay, stage>>
    /\ UNCHANGED streamVars /\ UNCHANGED stuffVars
    /\ UNCHANGED <<tasks, pool, writers, wire, ring, cacat, mem>>

NextSnap == CountSize \/ CountCheck \/ CountSend \/ SnapTick \/ SnapLoad \/ SnapStore

SpecSnap == InitSnap /\ [][NextSnap]_vars

\* C38: between two ticks every increment made is either in a line printed
\* or still in its counter: none is lost, none is printed twice
C38_NothingLost ==
    (stage = "snap" /\ snap.t = "idle") =>
        \A c \in DOMAIN NoStats : snap.shown[c] + stats[c] = snap.made[c]

-----------------------------------------------------------------------------
(* reassemble (cmd/cadu2hrdl/main.go) over nextPacket (rw.go, first revision) *)

\* one turn of the loop of reassemble's goroutine: a buffer is sent on the
\* channel if it has room and dropped otherwise, ErrSkip is counted, any other
\* error is logged and ends the goroutine, which closes the channel; tick tells
\* whether the five-second ticker has fired
ReassembleMain ==
    /\ stage = "read"
    /\ LET r    == nextPacket(pos, counter, rest)
           sent == Len(queue) < QueueCap
           c    == IF r.err = ErrSkip
                   THEN [relay EXCEPT !.skipped = @ + 1, !.size = @ + Len(r.buffer)]
                   ELSE IF r.err # NoErr \/ r.buffer = <<>> THEN relay
                   ELSE IF sent THEN [relay EXCEPT !.count = @ + 1]
                   ELSE [relay EXCEPT !.dropped = @ + 1,
                                      !.size = @ + Len(r.buffer)]
       IN  /\ pos' = r.pos
           /\ counter' = r.counter
           /\ rest' = r.rest
           /\ out' = Append(out, [buf |-> r.buffer, err |-> r.err])
           /\ queue' = IF r.err = NoErr /\ r.buffer # <<>> /\ sent
                       THEN Append(queue, r.buffer) ELSE queue
           /\ stage' = IF r.err \in {NoErr, ErrSkip} THEN "read" ELSE "eof"
           /\ \E tick \in BOOLEAN :
                 relay' = IF tick /\ r.err \in {NoErr, ErrSkip} THEN NoRelay ELSE c
    /\ UNCHANGED <<files, packets, frames, lost, reads, size, written>>
    /\ UNCHANGED stuffVars /\ UNCHANGED taskVars /\ UNCHANGED <<keep, q, stats>>

\* a stream, whole, with one CADU lost or with one CADU whose CRC is wrong
InitMain ==
    /\ InitStream \/ InitCrcStream
    /\ NoStuff /\ NoValidate /\ NoTasks /\ stage = "read"

NextMain == ReassembleMain \/ ValidateStep \/ Receive

SpecMain == InitMain /\ [][NextMain]_vars

\* C21: the reassembling task is ended by the end of the input only: a gap or a
\* CRC error reported by the CADU reader does not end it, the CADUs that follow
\* are still read and the packets they hold are still passed on
C21_NeverHalts ==
    stage = "eof" =>
       /\ out[Len(out)].err = EOF
       /\ pos = Len(frames)

-----------------------------------------------------------------------------
(* vcduReader.Read over multiReader.Read: CADUs read from files *)

\* the bytes of the i-th CADU of the scaled layout: the magic (its first byte
\* zeroed when ok is false), the sequence number, the body, and the byte sum of
\* sequence number and body in place of the CRC
FileFrame(i, ok) ==
    LET body == [j \in 1..(FrameLen - MagicLen - 2) |-> 10 * i + j]
    IN  (IF ok THEN Magic ELSE <<0>> \o Tail(Magic))
        \o <<i>> \o body \o <<(i + SumBytes(body)) % 256>>

ErrMagic == [kind |-> "magic", a |-> 0, b |-> 0]

\* multiReader.Read(bs) with len(bs) = want on the files fs: the count, the
\* error, the bytes read and the files afterwards
MultiRead(fs, want) ==
    IF fs = <<>> THEN [n |-> 0, err |-> EOF, bytes |-> <<>>, files |-> fs]
    ELSE IF Head(fs) # <<>>
         THEN LET n == Min(want, Len(Head(fs)))
              IN  [n |-> n, err |-> NoErr, bytes |-> Slice(Head(fs), 0, n),
                   files |-> <<From(Head(fs), n)>> \o Tail(fs)]
         ELSE IF Tail(fs) # <<>>
              THEN [n |-> 0, err |-> NoErr, bytes |-> <<>>, files |-> Tail(fs)]
              ELSE [n |-> 0, err |-> EOF, bytes |-> <<>>, files |-> <<>>]

\* r.inner.Read(xs) of vcduReader.Read, repeated while it returns (0, nil)
RECURSIVE InnerRead(_)
InnerRead(fs) ==
    LET m == MultiRead(fs, FrameLen)
    IN  IF m.err = NoErr /\ m.n = 0 THEN InnerRead(m.files) ELSE m

\* the frame vcduReader.Read sees in xs, a zeroed slice that holds the bytes
\* read; the magic is not looked at
FrameOf(bytes) ==
    LET xs == bytes \o Zeros(FrameLen - Len(bytes))
    IN  [seq |-> xs[MagicLen + 1], body |-> Slice(xs, MagicLen + 1, FrameLen - 1),
         want |-> xs[FrameLen],
         got |-> SumBytes(Slice(xs, MagicLen, FrameLen - 1)) % 256]

\* a stream of CADUs written to one or two files, the last CADU possibly cut,
\* at most one CADU with a wrong magic
InitFile ==
    /\ \E n \in 1..MaxFileFrames :
          \E bad \in 0..n :
          LET all == Flatten([i \in 1..n |-> FileFrame(i, i # bad)])
          IN  \E len \in ((n - 1) * FrameLen + 1)..(n * FrameLen), cut \in 1..(n * FrameLen) :
                 /\ cut <= len
                 /\ files = IF cut = len THEN <<Slice(all, 0, len)>>
                            ELSE <<Slice(all, 0, cut), Slice(all, cut, len)>>
    /\ packets = <<>> /\ frames = <<>> /\ lost = [at |-> 0, k |-> 0]
    /\ pos = 0 /\ counter = 0 /\ reads = <<>> /\ rest = <<>>
    /\ size = 0 /\ written = 0 /\ out = <<>>
    /\ NoStuff /\ NoValidate /\ NoTasks
    /\ stage = "read"

\* one call of vcduReader.Read whose upstream is the multiReader
FileRead ==
    /\ stage = "read"
    /\ LET m == InnerRead(files)
           f == FrameOf(m.bytes)
           r == VcduRead(f, counter)
       IN  /\ files' = m.files
           /\ IF m.err # NoErr
              THEN /\ reads' = Append(reads, [upn |-> m.n, bytes |-> m.bytes, n |-> m.n,
                                              body |-> <<>>, err |-> m.err])
                   /\ counter' = counter
                   /\ stage' = "eof"
              ELSE /\ reads' = Append(reads, [upn |-> m.n, bytes |-> m.bytes,
                                              n |-> Len(r.body), body |-> r.body,
                                              err |-> r.err])
                   /\ counter' = r.counter
                   /\ stage' = "read"
    /\ pos' = pos + 1
    /\ UNCHANGED <<packets, frames, lost, rest, size, written, out>>
    /\ UNCHANGED stuffVars /\ UNCHANGED taskVars /\ UNCHANGED validVars

NextFile == FileRead

SpecFile == InitFile /\ [][NextFile]_vars

\* C15: every call of vcduReader.Read that returns a frame has consumed exactly
\* one frame's worth of upstream bytes, and these are the bytes of one CADU of
\* the stream; fewer bytes end in EOF and are never processed as a frame
C15_OneFramePerRead ==
    \A i \in 1..Len(reads) :
       reads[i].err # EOF =>
          /\ reads[i].upn = FrameLen
          /\ \E c \in 1..MaxFileFrames, ok \in BOOLEAN :
                reads[i].bytes = FileFrame(c, ok)

\* C16: vcduReader.Read returns ErrMagic for a frame whose first four bytes are
\* not the CADU magic 1A CF FC 1D
C16_BadMagic ==
    \A i \in 1..Len(reads) :
       (reads[i].upn = FrameLen /\ Slice(reads[i].bytes, 0, MagicLen) # Magic)
          => reads[i].err = ErrMagic

====
